---- MODULE Spec2Model ----
(***************************************************************************)
(* Model of the NachOS MP4 file-system core: the multi-level FileHeader    *)
(* (filehdr.cc, concatenated into directory.cc) and the fixed-capacity     *)
(* Directory (directory.cc), both over the free-sector bitmap.             *)
(*                                                                         *)
(* The geometry is scaled down: SectorSize and NumDirect are small, and    *)
(* the three level capacities are derived from them exactly as the         *)
(* #defines derive them from 128 and 30, so that one-, two-, three- and    *)
(* four-level index trees fit on a disk of NumSectors sectors.  A          *)
(* directory's file has NumDirEntries * sizeof(DirectoryEntry) bytes and   *)
(* fits a leaf header, as the build's 64 * 20 = 1280 bytes do.             *)
(*                                                                         *)
(* The last part models the NachOS MP3 scheduler (scheduler.cc): the three *)
(* ready queues L1, L2, L3, FindNextToRun and aging.                       *)
(***************************************************************************)
EXTENDS Integers, Sequences, FiniteSets, TLC

\* ---------------------------------------------------------------- bounds
SectorSize == 12
NumDirect == 2
NumSectors == 20
NumDirEntries == 2
FileNameMaxLen == 1
MaxCreates == 3
MaxDepth == 2
NumThreads == 2
AgeCalls == 2
MaxAgings == 2

OneLevelSize == NumDirect * SectorSize
TwoLevelSize == NumDirect * NumDirect * SectorSize
ThreeLevelSize == NumDirect * NumDirect * NumDirect * SectorSize

\* Largest size handed to Allocate: one byte past ThreeLevelSize, so that the
\* "fileSize > ThreeLevelSize" branch runs; it stays below
\* NumDirect * ThreeLevelSize, so the index i never leaves dataSectors.
MaxFileSize == ThreeLevelSize + 1

Sectors == 0 .. (NumSectors - 1)
Sizes == 0 .. MaxFileSize

\* File names are strings over Chars, up to one character longer than
\* FileNameMaxLen; NUL is the terminator of a C string.  The names used are
\* a...a and a...ab: they include the empty name, names shorter than
\* FileNameMaxLen, and pairs that differ only after FileNameMaxLen characters.
Chars == {"a", "b"}
NUL == "nul"
Names ==
    { n \in UNION { [1 .. k -> Chars] : k \in 0 .. (FileNameMaxLen + 1) } :
        \A k \in 1 .. (Len(n) - 1) : n[k] = "a" }
Slots == 0 .. (NumDirEntries - 1)
\* The (newSector, AddDir) arguments of Add: a file's header in sector 1 or
\* a subdirectory's header in sector 2.
AddArgs == {[sector |-> 1, isDir |-> FALSE], [sector |-> 2, isDir |-> TRUE]}
SectorArgs == {arg.sector : arg \in AddArgs}

\* sizeof(DirectoryEntry): bool inUse, padded to the int that follows it, int
\* sector, char name[FileNameMaxLen + 1] and bool isDir, padded to a multiple
\* of the int's 4 bytes.
SizeofDirectoryEntry == 4 + 4 + 4 * ((FileNameMaxLen + 1 + 1 + 3) \div 4)

\* The size of a directory's file: tableSize * sizeof(DirectoryEntry).
DirectoryFileSize == NumDirEntries * SizeofDirectoryEntry

\* Names, paths and file sizes used when building directory trees.
TreeNames == {n \in Names : Len(n) = 1}
Paths == UNION { [1 .. n -> TreeNames] : n \in 0 .. MaxDepth }
TreeSizes == {1, OneLevelSize + 1}
ROOT == -1

\* Sectors left free inside the initially used prefix (a fragmented bitmap).
HoleSet == {1, 4}

VARIABLES
    freeMap,    \* PersistentBitmap: freeMap[s] = TRUE iff sector s is marked used
    disk,       \* SynchDisk sectors read as file headers: disk[s] is a FileHeader
    hdr,        \* the in-memory FileHeader object the caller holds
    hdrSector,  \* the sector the caller reserved for hdr itself, -1 if none
    pc,         \* what the caller has done with hdr so far
    panic,      \* TRUE once the kernel has stopped: an ASSERT has failed or
                \* a read of freed memory has faulted
    table,      \* Directory::table of the in-memory (root) Directory object
    tables,     \* directory files on disk: tables[s] is the table stored in
                \* the file whose header is in sector s
    creates,    \* number of files and subdirectories created so far
    baseMap,    \* (history) the bitmap before the current header or tree was started
    buildOK,    \* (history) every creation since the root was last empty succeeded
    last,       \* (history) the last header or tree call: arguments, result, state before it
    lastDir,    \* (history) the last Directory call: its name argument and result
    L1,         \* Scheduler::L1, ready threads of priority 100-149, front first
    L2,         \* Scheduler::L2, ready threads of priority 50-99, front first
    L3,         \* Scheduler::L3, ready threads of priority 0-49, front first
    threads,    \* the Thread objects: threads[t] has t's priority, predicted
                \* burst, status and time waited in a ready queue
    currentThread, \* kernel->currentThread, NULL while no thread has been set up
    toBeDestroyed, \* Scheduler::toBeDestroyed: the finishing thread to delete, or NULL
    agings,     \* number of calls of DoAgeThreeQueue so far
    lastSched   \* (history) the last Scheduler call: the thread passed or returned

vars == <<freeMap, disk, hdr, hdrSector, pc, panic, table, tables,
          creates, baseMap, buildOK, last, lastDir,
          L1, L2, L3, threads, currentThread, toBeDestroyed,
          agings, lastSched>>

hdrState == <<hdr, hdrSector, pc>>
dirState == <<table, lastDir>>
treeState == <<tables, creates, buildOK>>
schedState == <<L1, L2, L3, threads, currentThread, toBeDestroyed,
          agings, lastSched>>

\* ------------------------------------------------------------ arithmetic
divRoundUp(n, s) == (n + s - 1) \div s
divRoundDown(n, s) == n \div s

\* ---------------------------------------------------------------- bitmap
NumClear(map) == Cardinality({s \in Sectors : ~map[s]})

Test(map, which) == map[which]

Clear(map, which) == [map EXCEPT ![which] = FALSE]

RECURSIVE FirstClear(_, _)
FirstClear(map, i) ==
    IF i >= NumSectors THEN -1
    ELSE IF ~map[i] THEN i
    ELSE FirstClear(map, i + 1)

\* FindAndSet: reserve the lowest clear bit; sector = -1 when none is clear.
FindAndSet(map) ==
    LET s == FirstClear(map, 0)
    IN  IF s = -1 THEN [sector |-> -1, map |-> map]
        ELSE [sector |-> s, map |-> [map EXCEPT ![s] = TRUE]]

\* ----------------------------------------------------------- file header
\* FileHeader::FileHeader: size and sector fields sentineled to -1.
NewFileHeader ==
    [numBytes |-> -1, numSectors |-> -1,
     dataSectors |-> [i \in 0 .. (NumDirect - 1) |-> -1]]

\* A zero-filled sector, read as a header.
ZeroSector ==
    [numBytes |-> 0, numSectors |-> 0,
     dataSectors |-> [i \in 0 .. (NumDirect - 1) |-> 0]]

SetPtr(h, i, s) ==
    IF i \in 0 .. (NumDirect - 1)
    THEN [h EXCEPT !.dataSectors[i] = s]
    ELSE h

\* The result of Allocate on a fresh header.
\*   ok      the value returned (meaningless when assertOK is FALSE)
\*   assertOK  FALSE iff an ASSERT(dataSectors[i] >= 0) failed
\*   map, disk, hdr  the bitmap, the disk and *this when the call ends
\*   data, index     (history) the sectors reserved for data / child headers
AllocResult(ok, aok, map, dsk, h, data, index) ==
    [ok |-> ok, assertOK |-> aok, map |-> map, disk |-> dsk, hdr |-> h,
     data |-> data, index |-> index]

RECURSIVE AllocLeaf(_, _, _, _, _)
\* A slip in the loop bound: "<=" where the code has "<", one sector too many.
AllocLeafOneMore(map, dsk, h, j, data) ==
    IF j > h.numSectors THEN AllocResult(TRUE, TRUE, map, dsk, h, data, {})
    ELSE LET r == FindAndSet(map)
         IN  IF r.sector < 0
             THEN AllocResult(FALSE, FALSE, r.map, dsk, SetPtr(h, j, -1), data, {})
             ELSE AllocLeaf(r.map, dsk, SetPtr(h, j, r.sector), j + 1,
                            data \cup {r.sector})

\* lines 493-499: for (j = 0; j < numSectors; j++) dataSectors[j] = FindAndSet()
AllocLeaf(map, dsk, h, j, data) ==
    IF j >= h.numSectors THEN AllocResult(TRUE, TRUE, map, dsk, h, data, {})
    ELSE LET r == FindAndSet(map)
         IN  IF r.sector < 0
             THEN AllocResult(FALSE, FALSE, r.map, dsk, SetPtr(h, j, -1), data, {})
             ELSE AllocLeaf(r.map, dsk, SetPtr(h, j, r.sector), j + 1,
                            data \cup {r.sector})

RECURSIVE Allocate(_, _, _)
RECURSIVE AllocChildren(_, _, _, _, _, _, _, _)
\* A slip in the loop: every child is given a whole chunk, the last one too.
AllocChildrenFullChunks(map, dsk, h, fileSize, i, chunk, data, index) ==
    IF fileSize <= 0
    THEN AllocResult(TRUE, TRUE, map, dsk, [h EXCEPT !.numSectors = i], data, index)
    ELSE
      LET r == FindAndSet(map)
      IN  IF r.sector < 0
          THEN AllocResult(FALSE, FALSE, r.map, dsk, SetPtr(h, i, -1), data, index)
          ELSE
            LET h1 == SetPtr(h, i, r.sector)
                c == Allocate(r.map, dsk, chunk)
                data1 == data \cup c.data
                index1 == index \cup {r.sector} \cup c.index
            IN  IF ~c.assertOK
                THEN AllocResult(FALSE, FALSE, c.map, c.disk, h1, data1, index1)
                ELSE IF ~c.ok
                THEN AllocResult(FALSE, TRUE, c.map, c.disk, h1, data1, index1)
                ELSE AllocChildren(c.map, [c.disk EXCEPT ![r.sector] = c.hdr],
                                   h1, fileSize - chunk, i + 1, chunk, data1, index1)

\* The while loop shared by the three multi-level branches (lines 407-430,
\* 434-457, 461-484); chunk is ThreeLevelSize, TwoLevelSize or OneLevelSize.
AllocChildren(map, dsk, h, fileSize, i, chunk, data, index) ==
    IF fileSize <= 0
    THEN AllocResult(TRUE, TRUE, map, dsk, [h EXCEPT !.numSectors = i], data, index)
    ELSE
      LET r == FindAndSet(map)
      IN  IF r.sector < 0
          THEN AllocResult(FALSE, FALSE, r.map, dsk, SetPtr(h, i, -1), data, index)
          ELSE
            LET h1 == SetPtr(h, i, r.sector)
                sz == IF fileSize > chunk THEN chunk ELSE fileSize
                c == Allocate(r.map, dsk, sz)
                data1 == data \cup c.data
                index1 == index \cup {r.sector} \cup c.index
            IN  IF ~c.assertOK
                THEN AllocResult(FALSE, FALSE, c.map, c.disk, h1, data1, index1)
                ELSE IF ~c.ok
                THEN AllocResult(FALSE, TRUE, c.map, c.disk, h1, data1, index1)
                ELSE AllocChildren(c.map, [c.disk EXCEPT ![r.sector] = c.hdr],
                                   h1, fileSize - sz, i + 1, chunk, data1, index1)

\* A slip: the free-space check is left out.
AllocateNoCheck(map, dsk, fileSize) ==
    LET h == [NewFileHeader EXCEPT !.numBytes = fileSize,
                                   !.numSectors = divRoundUp(fileSize, SectorSize)]
    IN  IF fileSize > ThreeLevelSize
        THEN AllocChildren(map, dsk, h, fileSize, 0, ThreeLevelSize, {}, {})
        ELSE IF fileSize > TwoLevelSize
        THEN AllocChildren(map, dsk, h, fileSize, 0, TwoLevelSize, {}, {})
        ELSE IF fileSize > OneLevelSize
        THEN AllocChildren(map, dsk, h, fileSize, 0, OneLevelSize, {}, {})
        ELSE AllocLeaf(map, dsk, h, 0, {})

\* A slip in the free-space check: "<=" where the code has "<".
AllocateStrictCheck(map, dsk, fileSize) ==
    LET h == [NewFileHeader EXCEPT !.numBytes = fileSize,
                                   !.numSectors = divRoundUp(fileSize, SectorSize)]
    IN  IF NumClear(map) <= h.numSectors
        THEN AllocResult(FALSE, TRUE, map, dsk, h, {}, {})
        ELSE IF fileSize > ThreeLevelSize
        THEN AllocChildren(map, dsk, h, fileSize, 0, ThreeLevelSize, {}, {})
        ELSE IF fileSize > TwoLevelSize
        THEN AllocChildren(map, dsk, h, fileSize, 0, TwoLevelSize, {}, {})
        ELSE IF fileSize > OneLevelSize
        THEN AllocChildren(map, dsk, h, fileSize, 0, OneLevelSize, {}, {})
        ELSE AllocLeaf(map, dsk, h, 0, {})

\* FileHeader::Allocate(freeMap, fileSize) on a fresh header.
Allocate(map, dsk, fileSize) ==
    LET h == [NewFileHeader EXCEPT !.numBytes = fileSize,
                                   !.numSectors = divRoundUp(fileSize, SectorSize)]
    IN  IF NumClear(map) < h.numSectors
        THEN AllocResult(FALSE, TRUE, map, dsk, h, {}, {})
        ELSE IF fileSize > ThreeLevelSize
        THEN AllocChildren(map, dsk, h, fileSize, 0, ThreeLevelSize, {}, {})
        ELSE IF fileSize > TwoLevelSize
        THEN AllocChildren(map, dsk, h, fileSize, 0, TwoLevelSize, {}, {})
        ELSE IF fileSize > OneLevelSize
        THEN AllocChildren(map, dsk, h, fileSize, 0, OneLevelSize, {}, {})
        ELSE AllocLeaf(map, dsk, h, 0, {})

\* The result of Deallocate: the bitmap afterwards, whether every ASSERT
\* held, and (history) the sequence of sectors cleared, in order.
DeallocResult(map, aok, cleared) ==
    [map |-> map, assertOK |-> aok, cleared |-> cleared]

RECURSIVE Deallocate(_, _, _)
RECURSIVE DeallocFrom(_, _, _, _, _)

\* A slip in the multi-level loop: the child's own sector is not cleared.
DeallocFromKeepsChild(map, dsk, h, i, cleared) ==
    IF i >= h.numSectors
    THEN DeallocResult(map, TRUE, cleared)
    ELSE
      LET s == h.dataSectors[i]
      IN  IF s \notin Sectors
          THEN DeallocResult(map, FALSE, cleared)
          ELSE IF h.numBytes > OneLevelSize
          THEN LET c == Deallocate(map, dsk, dsk[s])
               IN  IF ~c.assertOK
                   THEN DeallocResult(c.map, FALSE, cleared \o c.cleared)
                   ELSE DeallocFrom(c.map, dsk, h, i + 1, cleared \o c.cleared)
          ELSE IF ~Test(map, s)
          THEN DeallocResult(map, FALSE, cleared)
          ELSE DeallocFrom(Clear(map, s), dsk, h, i + 1, cleared \o <<s>>)

\* A slip in the single-level loop: the sector is tested after it is cleared.
DeallocFromTestsAfterClear(map, dsk, h, i, cleared) ==
    IF i >= h.numSectors
    THEN DeallocResult(map, TRUE, cleared)
    ELSE
      LET s == h.dataSectors[i]
      IN  IF s \notin Sectors
          THEN DeallocResult(map, FALSE, cleared)
          ELSE IF h.numBytes > OneLevelSize
          THEN LET c == Deallocate(map, dsk, dsk[s])
               IN  IF ~c.assertOK
                   THEN DeallocResult(c.map, FALSE, cleared \o c.cleared)
                   ELSE DeallocFrom(Clear(c.map, s), dsk, h, i + 1,
                                    cleared \o c.cleared \o <<s>>)
          ELSE IF ~Test(Clear(map, s), s)
          THEN DeallocResult(Clear(map, s), FALSE, cleared \o <<s>>)
          ELSE DeallocFrom(Clear(map, s), dsk, h, i + 1, cleared \o <<s>>)

\* The two for loops of Deallocate (lines 522-529 and 532-536), from index i.
\* Bitmap::Test and Bitmap::Clear assert that the sector number is in range.
DeallocFrom(map, dsk, h, i, cleared) ==
    IF i >= h.numSectors
    THEN DeallocResult(map, TRUE, cleared)
    ELSE
      LET s == h.dataSectors[i]
      IN  IF s \notin Sectors
          THEN DeallocResult(map, FALSE, cleared)
          ELSE IF h.numBytes > OneLevelSize
          THEN LET c == Deallocate(map, dsk, dsk[s])
               IN  IF ~c.assertOK
                   THEN DeallocResult(c.map, FALSE, cleared \o c.cleared)
                   ELSE DeallocFrom(Clear(c.map, s), dsk, h, i + 1,
                                    cleared \o c.cleared \o <<s>>)
          ELSE IF ~Test(map, s)
          THEN DeallocResult(map, FALSE, cleared)
          ELSE DeallocFrom(Clear(map, s), dsk, h, i + 1, cleared \o <<s>>)

\* A slip: the loops start at the second pointer.
DeallocateFromSecond(map, dsk, h) == DeallocFrom(map, dsk, h, 1, <<>>)

\* FileHeader::Deallocate(freeMap)
Deallocate(map, dsk, h) == DeallocFrom(map, dsk, h, 0, <<>>)

RECURSIVE ByteToSector(_, _, _)
\* A slip in the leaf case: the offset is divided by the level size.
ByteToSectorLevelDiv(dsk, h, offset) ==
    LET chunk == IF h.numBytes > ThreeLevelSize THEN ThreeLevelSize
                 ELSE IF h.numBytes > TwoLevelSize THEN TwoLevelSize
                 ELSE OneLevelSize
    IN  IF h.numBytes > OneLevelSize
        THEN LET sector == divRoundDown(offset, chunk)
             IN  ByteToSector(dsk, dsk[h.dataSectors[sector]], offset - sector * chunk)
        ELSE h.dataSectors[divRoundDown(offset, OneLevelSize)]

\* FileHeader::ByteToSector(offset)
ByteToSector(dsk, h, offset) ==
    LET chunk == IF h.numBytes > ThreeLevelSize THEN ThreeLevelSize
                 ELSE IF h.numBytes > TwoLevelSize THEN TwoLevelSize
                 ELSE OneLevelSize
    IN  IF h.numBytes > OneLevelSize
        THEN LET sector == divRoundDown(offset, chunk)
             IN  ByteToSector(dsk, dsk[h.dataSectors[sector]], offset - sector * chunk)
        ELSE h.dataSectors[offset \div SectorSize]

\* -------------------------------------------------------------- directory
\* The character at 0-based position i of a C string.
CharAt(str, i) == IF i < Len(str) THEN str[i + 1] ELSE NUL

\* strncmp(a, b, n) = 0: the strings agree up to their terminator or up to
\* n characters, whichever comes first.
RECURSIVE StrNEqFrom(_, _, _, _)
StrNEqFrom(a, b, n, i) ==
    IF i >= n THEN TRUE
    ELSE IF CharAt(a, i) # CharAt(b, i) THEN FALSE
    ELSE IF CharAt(a, i) = NUL THEN TRUE
    ELSE StrNEqFrom(a, b, n, i + 1)

StrNEq(a, b, n) == StrNEqFrom(a, b, n, 0)

\* strncpy(dest, src, n) into a zeroed field of n + 1 bytes: at most n
\* characters of src, NUL-padded.
StrNCpy(src, n) == SubSeq(src, 1, IF Len(src) < n THEN Len(src) ELSE n)

\* Directory::Directory: every entry zeroed, not in use.
NewDirectory ==
    [i \in Slots |-> [inUse |-> FALSE, isDir |-> FALSE, name |-> <<>>, sector |-> 0]]

RECURSIVE FindIndexFrom(_, _, _)
\* A slip: the comparison runs one character past FileNameMaxLen.
FindIndexFromLong(tbl, name, i) ==
    IF i >= NumDirEntries THEN -1
    ELSE IF tbl[i].inUse /\ StrNEq(tbl[i].name, name, FileNameMaxLen + 1) THEN i
    ELSE FindIndexFrom(tbl, name, i + 1)

\* Directory::FindIndex
FindIndexFrom(tbl, name, i) ==
    IF i >= NumDirEntries THEN -1
    ELSE IF tbl[i].inUse /\ StrNEq(tbl[i].name, name, FileNameMaxLen) THEN i
    ELSE FindIndexFrom(tbl, name, i + 1)

FindIndex(tbl, name) == FindIndexFrom(tbl, name, 0)

RECURSIVE FirstFreeSlot(_, _)
\* A slip: the scan for a free slot runs from the last slot down.
FirstFreeSlotFromEnd(tbl, i) ==
    LET free == {j \in i .. (NumDirEntries - 1) : ~tbl[j].inUse}
    IN  IF free = {} THEN -1
        ELSE CHOOSE j \in free : \A k \in free : k <= j

\* The for loop of Directory::Add: the first slot not in use, from i.
FirstFreeSlot(tbl, i) ==
    IF i >= NumDirEntries THEN -1
    ELSE IF ~tbl[i].inUse THEN i
    ELSE FirstFreeSlot(tbl, i + 1)

FillSlot(tbl, i, name, newSector, AddDir) ==
    [tbl EXCEPT ![i] = [inUse |-> TRUE, isDir |-> AddDir,
                        name |-> StrNCpy(name, FileNameMaxLen),
                        sector |-> newSector]]

\* A slip: the name is not looked up before a slot is filled.
AddNoLookup(tbl, name, newSector, AddDir) ==
    LET i == FirstFreeSlot(tbl, 0)
    IN  IF i = -1 THEN [ok |-> FALSE, table |-> tbl]
        ELSE [ok |-> TRUE, table |-> FillSlot(tbl, i, name, newSector, AddDir)]

\* A slip: the scan for a free slot stops one slot early.
AddSkipsLastSlot(tbl, name, newSector, AddDir) ==
    IF FindIndex(tbl, name) # -1 THEN [ok |-> FALSE, table |-> tbl]
    ELSE LET i == FirstFreeSlot(tbl, 0)
         IN  IF i = -1 \/ i = NumDirEntries - 1 THEN [ok |-> FALSE, table |-> tbl]
             ELSE [ok |-> TRUE, table |-> FillSlot(tbl, i, name, newSector, AddDir)]

\* Directory::Add
Add(tbl, name, newSector, AddDir) ==
    IF FindIndex(tbl, name) # -1 THEN [ok |-> FALSE, table |-> tbl]
    ELSE LET i == FirstFreeSlot(tbl, 0)
         IN  IF i = -1 THEN [ok |-> FALSE, table |-> tbl]
             ELSE [ok |-> TRUE, table |-> FillSlot(tbl, i, name, newSector, AddDir)]

\* A slip: the whole entry is reset, not only its inUse flag.
RemoveResetsEntry(tbl, name) ==
    LET i == FindIndex(tbl, name)
    IN  IF i = -1 THEN [ok |-> FALSE, table |-> tbl]
        ELSE [ok |-> TRUE, table |-> [tbl EXCEPT ![i] = NewDirectory[i]]]

\* Directory::Remove
Remove(tbl, name) ==
    LET i == FindIndex(tbl, name)
    IN  IF i = -1 THEN [ok |-> FALSE, table |-> tbl]
        ELSE [ok |-> TRUE, table |-> [tbl EXCEPT ![i].inUse = FALSE]]

\* ------------------------------------------------------------------ queries
\* The value Find and FindisDir return for a name that is not bound.
NotFound == -1

\* A bool converted to int, as in "return table[i].isDir" of FindisDir.
BoolToInt(b) == IF b THEN 1 ELSE 0

\* The result of a query: the value returned and (history) the set of table
\* indices read after FindIndex has returned.
QueryResult(value, reads) == [value |-> value, reads |-> reads]

\* Directory::Find
Find(tbl, name) ==
    LET i == FindIndex(tbl, name)
    IN  IF i # -1 THEN QueryResult(tbl[i].sector, {i})
        ELSE QueryResult(NotFound, {})

\* Directory::FindisDir
FindisDir(tbl, name) ==
    LET i == FindIndex(tbl, name)
    IN  IF i # -1 THEN QueryResult(BoolToInt(tbl[i].isDir), {i})
        ELSE QueryResult(NotFound, {})

\* Directory::IsDir: table[FindIndex(name)].isDir with no test of the index.
\* For a name that is not bound the index is -1 and the read is outside the
\* array: the bool returned is whatever lies there.  The set of the results
\* the call can have.
IsDir(tbl, name) ==
    LET i == FindIndex(tbl, name)
    IN  IF i \in Slots THEN {QueryResult(BoolToInt(tbl[i].isDir), {i})}
        ELSE {QueryResult(BoolToInt(b), {i}) : b \in BOOLEAN}

\* --------------------------------------------------------- recursive listing
\* The result of RecursiveList: the lines printed, in order, each with its
\* indentation, and (history) the header sectors opened, in order, each with
\* the inUse flag of the slot it was taken from.
ListResult(printed, opened) == [printed |-> printed, opened |-> opened]

RECURSIVE RecursiveListFrom(_, _, _, _)
\* The for loop of Directory::RecursiveList(num), from slot i: an in-use
\* entry is printed; an entry whose isDir flag is set has its header sector
\* opened and the table stored there listed, whether it is in use or not.
RecursiveListFrom(tbl, tbls, i, num) ==
    IF i >= NumDirEntries THEN ListResult(<<>>, <<>>)
    ELSE
      LET e == tbl[i]
          line == IF e.inUse
                  THEN <<[indent |-> num, isDir |-> e.isDir, name |-> e.name]>>
                  ELSE <<>>
          sub == IF e.isDir
                 THEN RecursiveListFrom(tbls[e.sector], tbls, 0, num + 1)
                 ELSE ListResult(<<>>, <<>>)
          here == IF e.isDir
                  THEN <<[sector |-> e.sector, inUse |-> e.inUse]>>
                  ELSE <<>>
          rest == RecursiveListFrom(tbl, tbls, i + 1, num)
      IN  ListResult(line \o sub.printed \o rest.printed,
                     here \o sub.opened \o rest.opened)

\* Directory::RecursiveList(num)
RecursiveList(tbl, tbls, num) == RecursiveListFrom(tbl, tbls, 0, num)

\* ------------------------------------------------------- recursive removal
\* The sectors Directory::WriteBack(file) writes: WriteAt(table, tableSize *
\* sizeof(DirectoryEntry), 0) writes the table's bytes from offset 0, as many
\* of them as the file is long, so one data sector per offset written.
WriteSectors(dsk, h) ==
    LET numBytes == IF h.numBytes < DirectoryFileSize THEN h.numBytes
                    ELSE DirectoryFileSize
    IN  {ByteToSector(dsk, h, o) : o \in 0 .. (numBytes - 1)}

\* (history) One write-back of a nested table: the subdirectory's header
\* sector, the sectors written and those of them marked used at that moment.
WriteEvent(map, dsk, sector) ==
    [dir |-> sector, blocks |-> WriteSectors(dsk, dsk[sector]),
     used |-> {s \in WriteSectors(dsk, dsk[sector]) : Test(map, s)}]

\* The result of RecursiveRemove: the table, the bitmap and the directory
\* files afterwards, whether every ASSERT held, and (history) the sectors
\* cleared, in order, the numbers of files and subdirectories removed, and
\* the write-backs of nested tables, in order.
RRResult(tbl, map, tbls, aok, cleared, files, dirs, written) ==
    [table |-> tbl, map |-> map, tables |-> tbls, assertOK |-> aok,
     cleared |-> cleared, files |-> files, dirs |-> dirs, written |-> written]

RECURSIVE RecursiveRemove(_, _, _, _)
RECURSIVE RemoveFrom(_, _, _, _, _, _, _, _, _)

\* A slip in the subdirectory branch: the nested table is not emptied.
RemoveFromSkipsNested(tbl, map, dsk, tbls, i, cleared, files, dirs, written) ==
    IF i >= NumDirEntries
    THEN RRResult(tbl, map, tbls, TRUE, cleared, files, dirs, written)
    ELSE IF ~tbl[i].inUse
    THEN RemoveFrom(tbl, map, dsk, tbls, i + 1, cleared, files, dirs, written)
    ELSE
      LET sector == tbl[i].sector
      IN  IF sector \notin Sectors
          THEN RRResult(tbl, map, tbls, FALSE, cleared, files, dirs, written)
          ELSE
            LET d == Deallocate(map, dsk, dsk[sector])
                cl == cleared \o d.cleared \o <<sector>>
                f == IF tbl[i].isDir THEN files ELSE files + 1
                n == IF tbl[i].isDir THEN dirs + 1 ELSE dirs
            IN  IF ~d.assertOK
                THEN RRResult(tbl, d.map, tbls, FALSE, cleared \o d.cleared,
                              files, dirs, written)
                ELSE RemoveFrom(Remove(tbl, tbl[i].name).table, Clear(d.map, sector),
                                dsk, tbls, i + 1, cl, f, n, written)

\* A slip in the subdirectory branch: the nested table is written back after
\* the subdirectory's file has been freed.
RemoveFromWritesAfterFree(tbl, map, dsk, tbls, i, cleared, files, dirs, written) ==
    IF i >= NumDirEntries
    THEN RRResult(tbl, map, tbls, TRUE, cleared, files, dirs, written)
    ELSE IF ~tbl[i].inUse
    THEN RemoveFrom(tbl, map, dsk, tbls, i + 1, cleared, files, dirs, written)
    ELSE
      LET sector == tbl[i].sector
      IN  IF sector \notin Sectors
          THEN RRResult(tbl, map, tbls, FALSE, cleared, files, dirs, written)
          ELSE IF ~tbl[i].isDir
          THEN
            LET d == Deallocate(map, dsk, dsk[sector])
            IN  IF ~d.assertOK
                THEN RRResult(tbl, d.map, tbls, FALSE, cleared \o d.cleared,
                              files, dirs, written)
                ELSE RemoveFrom(Remove(tbl, tbl[i].name).table, Clear(d.map, sector),
                                dsk, tbls, i + 1,
                                cleared \o d.cleared \o <<sector>>, files + 1, dirs,
                                written)
          ELSE
            LET r == RecursiveRemove(tbls[sector], map, dsk, tbls)
                tbls1 == [r.tables EXCEPT ![sector] = r.table]
                d == Deallocate(r.map, dsk, dsk[sector])
                w == written \o r.written
                       \o <<WriteEvent(Clear(d.map, sector), dsk, sector)>>
            IN  IF ~r.assertOK
                THEN RRResult(tbl, r.map, r.tables, FALSE, cleared \o r.cleared,
                              files + r.files, dirs + r.dirs, written \o r.written)
                ELSE IF ~d.assertOK
                THEN RRResult(tbl, d.map, r.tables, FALSE,
                              cleared \o r.cleared \o d.cleared,
                              files + r.files, dirs + r.dirs, written \o r.written)
                ELSE RemoveFrom(Remove(tbl, tbl[i].name).table, Clear(d.map, sector),
                                dsk, tbls1, i + 1,
                                cleared \o r.cleared \o d.cleared \o <<sector>>,
                                files + r.files, dirs + r.dirs + 1, w)

\* A slip in the subdirectory branch: the emptied nested table is not
\* written back.
RemoveFromNoWriteBack(tbl, map, dsk, tbls, i, cleared, files, dirs, written) ==
    IF i >= NumDirEntries
    THEN RRResult(tbl, map, tbls, TRUE, cleared, files, dirs, written)
    ELSE IF ~tbl[i].inUse
    THEN RemoveFrom(tbl, map, dsk, tbls, i + 1, cleared, files, dirs, written)
    ELSE
      LET sector == tbl[i].sector
      IN  IF sector \notin Sectors
          THEN RRResult(tbl, map, tbls, FALSE, cleared, files, dirs, written)
          ELSE IF ~tbl[i].isDir
          THEN
            LET d == Deallocate(map, dsk, dsk[sector])
            IN  IF ~d.assertOK
                THEN RRResult(tbl, d.map, tbls, FALSE, cleared \o d.cleared,
                              files, dirs, written)
                ELSE RemoveFrom(Remove(tbl, tbl[i].name).table, Clear(d.map, sector),
                                dsk, tbls, i + 1,
                                cleared \o d.cleared \o <<sector>>, files + 1, dirs,
                                written)
          ELSE
            LET r == RecursiveRemove(tbls[sector], map, dsk, tbls)
                d == Deallocate(r.map, dsk, dsk[sector])
            IN  IF ~r.assertOK
                THEN RRResult(tbl, r.map, r.tables, FALSE, cleared \o r.cleared,
                              files + r.files, dirs + r.dirs, written \o r.written)
                ELSE IF ~d.assertOK
                THEN RRResult(tbl, d.map, r.tables, FALSE,
                              cleared \o r.cleared \o d.cleared,
                              files + r.files, dirs + r.dirs, written \o r.written)
                ELSE RemoveFrom(Remove(tbl, tbl[i].name).table, Clear(d.map, sector),
                                dsk, r.tables, i + 1,
                                cleared \o r.cleared \o d.cleared \o <<sector>>,
                                files + r.files, dirs + r.dirs + 1,
                                written \o r.written)

\* The second for loop of RecursiveRemove (lines 191-217), from index i.
RemoveFrom(tbl, map, dsk, tbls, i, cleared, files, dirs, written) ==
    IF i >= NumDirEntries
    THEN RRResult(tbl, map, tbls, TRUE, cleared, files, dirs, written)
    ELSE IF ~tbl[i].inUse
    THEN RemoveFrom(tbl, map, dsk, tbls, i + 1, cleared, files, dirs, written)
    ELSE
      LET sector == tbl[i].sector
      IN  IF sector \notin Sectors
          THEN RRResult(tbl, map, tbls, FALSE, cleared, files, dirs, written)
          ELSE IF ~tbl[i].isDir
          THEN
            \* lines 193-198: FetchFrom, Deallocate, Clear, Remove
            LET d == Deallocate(map, dsk, dsk[sector])
            IN  IF ~d.assertOK
                THEN RRResult(tbl, d.map, tbls, FALSE, cleared \o d.cleared,
                              files, dirs, written)
                ELSE RemoveFrom(Remove(tbl, tbl[i].name).table, Clear(d.map, sector),
                                dsk, tbls, i + 1,
                                cleared \o d.cleared \o <<sector>>, files + 1, dirs,
                                written)
          ELSE
            \* lines 201-212: load the nested table, empty it, write it
            \* back, then free the subdirectory's file
            LET r == RecursiveRemove(tbls[sector], map, dsk, tbls)
                tbls1 == [r.tables EXCEPT ![sector] = r.table]
                w == written \o r.written \o <<WriteEvent(r.map, dsk, sector)>>
                d == Deallocate(r.map, dsk, dsk[sector])
            IN  IF ~r.assertOK
                THEN RRResult(tbl, r.map, r.tables, FALSE, cleared \o r.cleared,
                              files + r.files, dirs + r.dirs, written \o r.written)
                ELSE IF ~d.assertOK
                THEN RRResult(tbl, d.map, tbls1, FALSE,
                              cleared \o r.cleared \o d.cleared,
                              files + r.files, dirs + r.dirs, w)
                ELSE RemoveFrom(Remove(tbl, tbl[i].name).table, Clear(d.map, sector),
                                dsk, tbls1, i + 1,
                                cleared \o r.cleared \o d.cleared \o <<sector>>,
                                files + r.files, dirs + r.dirs + 1, w)

\* Directory::RecursiveRemove(freeMap)
RecursiveRemove(tbl, map, dsk, tbls) ==
    RemoveFrom(tbl, map, dsk, tbls, 0, <<>>, 0, 0, <<>>)

\* ------------------------------------------------------------ file creation
\* The directory a path names: ROOT or the header sector of a subdirectory.
RECURSIVE ResolveFrom(_, _, _, _)
ResolveFrom(loc, tbl, tbls, path) ==
    IF path = <<>> THEN [found |-> TRUE, loc |-> loc]
    ELSE LET i == FindIndex(tbl, Head(path))
         IN  IF i = -1 \/ ~tbl[i].isDir
             THEN [found |-> FALSE, loc |-> ROOT]
             ELSE ResolveFrom(tbl[i].sector, tbls[tbl[i].sector], tbls, Tail(path))

\* CreateFile / create-directory of the file-system layer: reserve a sector
\* for the header, Allocate the blocks, write the header back, Add the entry
\* to the directory and write the directory back.  A new subdirectory starts
\* with an empty table.  When Allocate fails the caller gives back the header
\* sector it reserved itself and writes nothing.
CreateResult(ok, aok, map, dsk, tbl, tbls) ==
    [ok |-> ok, assertOK |-> aok, map |-> map, disk |-> dsk, table |-> tbl,
     tables |-> tbls]

CreateIn(tbl, map, dsk, tbls, loc, name, size, isDir) ==
    LET dir == IF loc = ROOT THEN tbl ELSE tbls[loc]
        s == FindAndSet(map)
        a == Allocate(s.map, dsk, IF isDir THEN DirectoryFileSize ELSE size)
        added == Add(dir, name, s.sector, isDir)
        dsk1 == [a.disk EXCEPT ![s.sector] = a.hdr]
        tbls1 == IF isDir THEN [tbls EXCEPT ![s.sector] = NewDirectory] ELSE tbls
    IN  IF FindIndex(dir, name) # -1 \/ FirstFreeSlot(dir, 0) = -1
        THEN CreateResult(FALSE, TRUE, map, dsk, tbl, tbls)
        ELSE IF s.sector = -1
        THEN CreateResult(FALSE, TRUE, map, dsk, tbl, tbls)
        ELSE IF ~a.assertOK
        THEN CreateResult(FALSE, FALSE, a.map, a.disk, tbl, tbls)
        ELSE IF ~a.ok
        THEN CreateResult(FALSE, TRUE, Clear(a.map, s.sector), a.disk, tbl, tbls)
        ELSE IF loc = ROOT
        THEN CreateResult(TRUE, TRUE, a.map, dsk1, added.table, tbls1)
        ELSE CreateResult(TRUE, TRUE, a.map, dsk1, tbl,
                          [tbls1 EXCEPT ![loc] = added.table])

\* ================================================================ scheduler
\* The priority ranges of the three queues (ReadyToRun, lines 72-78) and the
\* amount aging adds (AgeQueue, line 174).
L1Min == 100
L1Max == 149
L2Min == 50
L2Max == 99
L3Min == 0
L3Max == 49
AgingStep == 10

Threads == 1 .. NumThreads
NULL == 0

\* The priorities threads are created with: 49, the highest of L3, which aging
\* takes to L2; 99, the highest of L2, which aging takes to L1; and 145, which
\* aging would take past 149.
InitPriorities == {49, 99, 145}
\* The predicted burst times threads have.
Bursts == {1, 2}

\* A newly created Thread.
NewThread(p, b) ==
    [priority |-> p, predict |-> b, status |-> "JUST_CREATED", waited |-> 0]

\* thread->SetPriority(10) in AgeQueue: the priority raised by 10, 149 at most.
SetPriority(p, step) == IF p + step > L1Max THEN L1Max ELSE p + step

\* The scheduler's queues and the threads, as one value.
SchedState(l1, l2, l3, thr) == [L1 |-> l1, L2 |-> l2, L3 |-> l3, threads |-> thr]

QueueOf(q, level) == IF level = 1 THEN q.L1 ELSE IF level = 2 THEN q.L2 ELSE q.L3

SetQueue(q, level, list) ==
    IF level = 1 THEN [q EXCEPT !.L1 = list]
    ELSE IF level = 2 THEN [q EXCEPT !.L2 = list]
    ELSE [q EXCEPT !.L3 = list]

\* List::Remove: the first occurrence of the item is taken out.
RECURSIVE ListRemove(_, _)
ListRemove(list, t) ==
    IF list = <<>> THEN <<>>
    ELSE IF Head(list) = t THEN Tail(list)
    ELSE <<Head(list)>> \o ListRemove(Tail(list), t)

\* Scheduler::Removethread
Removethread(q, level, t) == SetQueue(q, level, ListRemove(QueueOf(q, level), t))

\* Scheduler::InsertToQueue
InsertToQueue(q, level, t) == SetQueue(q, level, Append(QueueOf(q, level), t))

\* The queue ReadyToRun picks for a priority: 0 when no branch is taken.
LevelOf(p) ==
    IF p >= L1Min /\ p <= L1Max THEN 1
    ELSE IF p >= L2Min /\ p <= L2Max THEN 2
    ELSE IF p >= L3Min /\ p <= L3Max THEN 3
    ELSE 0

\* A slip in the last test: "<" where the code has "<=".
ReadyToRunStrictL3(q, t) ==
    LET p == q.threads[t].priority
        level == IF p >= L1Min /\ p <= L1Max THEN 1
                 ELSE IF p >= L2Min /\ p <= L2Max THEN 2
                 ELSE IF p >= L3Min /\ p < L3Max THEN 3
                 ELSE 0
        q1 == [q EXCEPT !.threads[t].status = "READY"]
    IN  IF level = 0 THEN q1 ELSE InsertToQueue(q1, level, t)

\* Scheduler::ReadyToRun(thread)
ReadyToRun(q, t) ==
    LET level == LevelOf(q.threads[t].priority)
        q1 == [q EXCEPT !.threads[t].status = "READY"]
    IN  IF level = 0 THEN q1 ELSE InsertToQueue(q1, level, t)

RECURSIVE LowestFrom(_, _, _, _)
\* A slip in the scan of L1: "<=" where the code has "<".
LowestFromLastWins(list, thr, k, lowest) ==
    IF k > Len(list) THEN lowest
    ELSE IF thr[list[k]].predict <= thr[lowest].predict
    THEN LowestFrom(list, thr, k + 1, list[k])
    ELSE LowestFrom(list, thr, k + 1, lowest)

\* The for loop of lines 104-110, from the k-th thread of L1.
LowestFrom(list, thr, k, lowest) ==
    IF k > Len(list) THEN lowest
    ELSE IF thr[list[k]].predict < thr[lowest].predict
    THEN LowestFrom(list, thr, k + 1, list[k])
    ELSE LowestFrom(list, thr, k + 1, lowest)

\* The for loop of lines 119-126, from the k-th thread of L2.
RECURSIVE HighestFrom(_, _, _, _)
HighestFrom(list, thr, k, highest) ==
    IF k > Len(list) THEN highest
    ELSE IF thr[list[k]].priority > thr[highest].priority
    THEN HighestFrom(list, thr, k + 1, list[k])
    ELSE HighestFrom(list, thr, k + 1, highest)

\* The result of FindNextToRun: the thread returned (NULL when none), the
\* queue it was taken from (0 when none) and the queues and threads afterwards.
FindResult(t, level, q) == [thread |-> t, level |-> level, sched |-> q]

\* What FindNextToRun does with the thread it picked: AddTicksInQueue, then
\* Removethread.
TakeFrom(q, level, t) == FindResult(t, level, Removethread(q, level, t))

\* A slip in the order of the tests: L2 is looked at before L1.
FindNextToRunL2First(q) ==
    IF q.L2 # <<>>
    THEN TakeFrom(q, 2, HighestFrom(q.L2, q.threads, 1, Head(q.L2)))
    ELSE IF q.L1 # <<>>
    THEN TakeFrom(q, 1, LowestFrom(q.L1, q.threads, 1, Head(q.L1)))
    ELSE IF q.L3 # <<>>
    THEN TakeFrom(q, 3, Head(q.L3))
    ELSE FindResult(NULL, 0, q)

\* Scheduler::FindNextToRun
FindNextToRun(q) ==
    IF q.L1 # <<>>
    THEN TakeFrom(q, 1, LowestFrom(q.L1, q.threads, 1, Head(q.L1)))
    ELSE IF q.L2 # <<>>
    THEN TakeFrom(q, 2, HighestFrom(q.L2, q.threads, 1, Head(q.L2)))
    ELSE IF q.L3 # <<>>
    THEN TakeFrom(q, 3, Head(q.L3))
    ELSE FindResult(NULL, 0, q)

\* The time a thread has been waiting in its queue, counted in periods of the
\* timer that calls DoAgeThreeQueue: one more period has passed for every
\* thread in a queue.  AddTicksInQueue and UpdateAgeBaseline move this time
\* from "since the baseline" to "ticks in queue" and leave the sum alone.
TimePasses(q) ==
    LET queued == {q.L1[k] : k \in DOMAIN q.L1} \cup {q.L2[k] : k \in DOMAIN q.L2}
                  \cup {q.L3[k] : k \in DOMAIN q.L3}
    IN  [q EXCEPT !.threads =
            [t \in Threads |->
                IF t \in queued /\ q.threads[t].waited < AgeCalls
                THEN [q.threads[t] EXCEPT !.waited = @ + 1]
                ELSE q.threads[t]]]

\* curThread->HandleAgingOld() after AddTicksInQueue: the thread has waited
\* AgeCalls periods (the scaled 1500 ticks).
HandleAgingOld(thread) == thread.waited >= AgeCalls

\* What the loop of AgeQueue leaves: the queues and threads, and whether the
\* process took a fault in it.
AgeResult(q, fault) == [sched |-> q, fault |-> fault]

\* iter->Next() and iter->Item() (lines 168-169) after Removethread has
\* deleted the list element the iterator stands on and InsertToQueue has
\* allocated a new one.  The read of the freed element's next pointer gives
\* one of three things: the pointer it held (the loop goes on with the rest
\* of the queue: rest), NULL, the element having become the new tail of the
\* other queue (the loop ends), or a value that is no list element, whose
\* use faults (the process dies where it stands).
NextAfterRemove(q, rest) == rest \cup {AgeResult(q, FALSE), AgeResult(q, TRUE)}

RECURSIVE AgeFrom(_, _, _, _)
\* A slip in the L2 test: 149 where the code has 99.
AgeFromPromotesAbove149(q, level, items, k) ==
    IF k > Len(items) THEN {AgeResult(q, FALSE)}
    ELSE
      LET t == items[k]
          th == q.threads[t]
      IN  IF ~HandleAgingOld(th)
          THEN AgeFrom(q, level, items, k + 1)
          ELSE
            LET p == SetPriority(th.priority, AgingStep)
                q1 == [q EXCEPT !.threads[t].waited = 0,
                                !.threads[t].priority = p]
                up3 == InsertToQueue(Removethread(q1, 3, t), 2, t)
                up2 == InsertToQueue(Removethread(q1, 2, t), 1, t)
            IN  IF level = 3 /\ p > L3Max
                THEN NextAfterRemove(up3, AgeFrom(up3, level, items, k + 1))
                ELSE IF level = 2 /\ p > L1Max
                THEN NextAfterRemove(up2, AgeFrom(up2, level, items, k + 1))
                ELSE AgeFrom(q1, level, items, k + 1)

\* The for loop of AgeQueue (lines 168-185) over the threads that are in the
\* queue when it starts, from the k-th: the set of its outcomes.
AgeFrom(q, level, items, k) ==
    IF k > Len(items) THEN {AgeResult(q, FALSE)}
    ELSE
      LET t == items[k]
          th == q.threads[t]
      IN  IF ~HandleAgingOld(th)
          THEN AgeFrom(q, level, items, k + 1)
          ELSE
            LET p == SetPriority(th.priority, AgingStep)
                q1 == [q EXCEPT !.threads[t].waited = 0,
                                !.threads[t].priority = p]
                up3 == InsertToQueue(Removethread(q1, 3, t), 2, t)
                up2 == InsertToQueue(Removethread(q1, 2, t), 1, t)
            IN  IF level = 3 /\ p > L3Max
                THEN NextAfterRemove(up3, AgeFrom(up3, level, items, k + 1))
                ELSE IF level = 2 /\ p > L2Max
                THEN NextAfterRemove(up2, AgeFrom(up2, level, items, k + 1))
                ELSE AgeFrom(q1, level, items, k + 1)

\* Scheduler::AgeQueue(Readyqueue, level)
AgeQueue(q, level) == AgeFrom(q, level, QueueOf(q, level), 1)

\* Scheduler::DoAgeThreeQueue: L3, then L2, then L1, as far as the process
\* gets.
DoAgeThreeQueue(q) ==
    LET aged3 == AgeQueue(q, 3)
        aged2 == UNION {IF r.fault THEN {r} ELSE AgeQueue(r.sched, 2) : r \in aged3}
    IN  UNION {IF r.fault THEN {r} ELSE AgeQueue(r.sched, 1) : r \in aged2}

\* What a deleted Thread object leaves behind: nothing to be read.
DeletedThread == [priority |-> 0, predict |-> 0, status |-> "DELETED", waited |-> 0]

\* The result of Run up to SWITCH: the threads, kernel->currentThread and
\* toBeDestroyed.
RunResult(thr, cur, tbd) == [threads |-> thr, currentThread |-> cur, toBeDestroyed |-> tbd]

\* Scheduler::Run(nextThread, finishing) up to SWITCH (lines 205-236), with
\* oldThread = kernel->currentThread.
Run(thr, cur, tbd, nextThread, finishing) ==
    RunResult([thr EXCEPT ![nextThread].status = "RUNNING"],
              nextThread,
              IF finishing THEN cur ELSE tbd)

\* Scheduler::CheckToBeDestroyed: the threads afterwards.
CheckToBeDestroyed(thr, tbd) ==
    IF tbd # NULL THEN [thr EXCEPT ![tbd] = DeletedThread] ELSE thr

NoSchedCall == [op |-> "none", thread |-> NULL, level |-> 0, queue |-> <<>>]

\* The scheduler while the file system is used: no thread, empty queues.
SchedIdle ==
    /\ L1 = <<>> /\ L2 = <<>> /\ L3 = <<>>
    /\ threads = [t \in Threads |-> NewThread(L3Min, 1)]
    /\ currentThread = NULL
    /\ toBeDestroyed = NULL
    /\ agings = 0
    /\ lastSched = NoSchedCall

\* ------------------------------------------------------- header life cycle
NoCall ==
    [op |-> "none", size |-> 0, ok |-> TRUE, preClear |-> 0,
     preMap |-> [s \in Sectors |-> FALSE], data |-> {}, index |-> {},
     cleared |-> <<>>, files |-> 0, dirs |-> 0, built |-> TRUE,
     written |-> <<>>]

\* The initial bitmaps of the directory tree: every fourth prefix length.
TreeInitMaps ==
    { [s \in Sectors |-> s < k /\ s \notin h] :
        k \in {j \in 0 .. NumSectors : j % 4 = 2}, h \in SUBSET HoleSet }

NoDirCall == [op |-> "none", name |-> <<>>, ok |-> TRUE]

InitMaps ==
    { [s \in Sectors |-> s < k /\ s \notin h] :
        k \in 0 .. NumSectors, h \in SUBSET HoleSet }

InitHdr ==
    /\ freeMap \in InitMaps
    /\ disk = [s \in Sectors |-> ZeroSector]
    /\ hdr = NewFileHeader
    /\ hdrSector = -1
    /\ pc = "fresh"
    /\ panic = FALSE
    /\ table = NewDirectory
    /\ tables = [s \in Sectors |-> NewDirectory]
    /\ creates = 0
    /\ baseMap = freeMap
    /\ buildOK = TRUE
    /\ last = NoCall
    /\ lastDir = NoDirCall
    /\ SchedIdle

\* The caller reserves the sector that will hold the header itself.
ReserveSector ==
    /\ ~panic /\ pc = "fresh"
    /\ LET r == FindAndSet(freeMap)
       IN  /\ freeMap' = r.map
           /\ hdrSector' = r.sector
           /\ pc' = IF r.sector >= 0 THEN "reserved" ELSE "fresh"
           /\ last' = [NoCall EXCEPT !.op = "ReserveSector",
                                     !.ok = (r.sector >= 0),
                                     !.preClear = NumClear(freeMap),
                                     !.preMap = freeMap]
    /\ baseMap' = freeMap
    /\ UNCHANGED <<disk, hdr, panic, dirState, treeState, schedState>>

\* hdr->Allocate(freeMap, size)
DoAllocate(size) ==
    /\ ~panic /\ pc \in {"fresh", "reserved"}
    /\ LET r == Allocate(freeMap, disk, size)
       IN  /\ freeMap' = r.map
           /\ disk' = r.disk
           /\ hdr' = r.hdr
           /\ panic' = ~r.assertOK
           /\ pc' = IF r.assertOK /\ r.ok THEN "allocated" ELSE "failed"
           /\ last' = [NoCall EXCEPT !.op = "Allocate", !.size = size,
                                     !.ok = (r.assertOK /\ r.ok),
                                     !.preClear = NumClear(freeMap),
                                     !.preMap = freeMap,
                                     !.data = r.data, !.index = r.index]
    /\ baseMap' = IF pc = "fresh" THEN freeMap ELSE baseMap
    /\ UNCHANGED <<hdrSector, dirState, treeState, schedState>>

\* hdr->WriteBack(hdrSector)
WriteBack ==
    /\ ~panic /\ pc = "allocated" /\ hdrSector >= 0
    /\ disk' = [disk EXCEPT ![hdrSector] = hdr]
    /\ pc' = "written"
    /\ last' = [NoCall EXCEPT !.op = "WriteBack", !.size = hdr.numBytes,
                              !.preClear = NumClear(freeMap), !.preMap = freeMap]
    /\ UNCHANGED <<freeMap, hdr, hdrSector, panic, baseMap, dirState, treeState, schedState>>

\* hdr->Deallocate(freeMap)
DoDeallocate ==
    /\ ~panic /\ pc \in {"allocated", "written"}
    /\ LET r == Deallocate(freeMap, disk, hdr)
       IN  /\ freeMap' = r.map
           /\ panic' = ~r.assertOK
           /\ last' = [NoCall EXCEPT !.op = "Deallocate", !.size = hdr.numBytes,
                                     !.ok = r.assertOK,
                                     !.preClear = NumClear(freeMap),
                                     !.preMap = freeMap,
                                     !.cleared = r.cleared]
    /\ pc' = "deallocated"
    /\ UNCHANGED <<disk, hdr, hdrSector, baseMap, dirState, treeState, schedState>>

\* freeMap->Clear(sector) of the header's own sector; the header is deleted.
ClearOwn ==
    /\ ~panic /\ pc = "deallocated" /\ hdrSector >= 0
    /\ freeMap' = Clear(freeMap, hdrSector)
    /\ hdr' = NewFileHeader
    /\ hdrSector' = -1
    /\ pc' = "cleared"
    /\ last' = [NoCall EXCEPT !.op = "ClearOwn", !.size = hdr.numBytes,
                              !.preClear = NumClear(freeMap), !.preMap = freeMap,
                              !.cleared = <<hdrSector>>]
    /\ UNCHANGED <<disk, panic, baseMap, dirState, treeState, schedState>>

NextHdr ==
    \/ ReserveSector
    \/ \E size \in Sizes : DoAllocate(size)
    \/ WriteBack
    \/ DoDeallocate
    \/ ClearOwn

SpecHdr == InitHdr /\ [][NextHdr]_vars

\* ---------------------------------------------------------- directory calls
\* An empty Directory object in memory; the disk is not touched.
InitDir ==
    /\ freeMap = [s \in Sectors |-> s < 2]
    /\ disk = [s \in Sectors |-> ZeroSector]
    /\ hdr = NewFileHeader
    /\ hdrSector = -1
    /\ pc = "fresh"
    /\ panic = FALSE
    /\ table = NewDirectory
    /\ tables = [s \in Sectors |-> NewDirectory]
    /\ creates = 0
    /\ baseMap = freeMap
    /\ buildOK = TRUE
    /\ last = NoCall
    /\ lastDir = NoDirCall
    /\ SchedIdle

\* directory->Add(name, newSector, AddDir)
DoAdd(name, newSector, AddDir) ==
    /\ LET r == Add(table, name, newSector, AddDir)
       IN  /\ table' = r.table
           /\ lastDir' = [op |-> "Add", name |-> name, ok |-> r.ok]
    /\ UNCHANGED <<freeMap, disk, panic, baseMap, last, hdrState, treeState, schedState>>

\* directory->Remove(name)
DoRemove(name) ==
    /\ LET r == Remove(table, name)
       IN  /\ table' = r.table
           /\ lastDir' = [op |-> "Remove", name |-> name, ok |-> r.ok]
    /\ UNCHANGED <<freeMap, disk, panic, baseMap, last, hdrState, treeState, schedState>>

\* directory->Find(name)
DoFind(name) ==
    /\ LET r == Find(table, name)
       IN  lastDir' = [op |-> "Find", name |-> name, ok |-> r.value # NotFound,
                       value |-> r.value, reads |-> r.reads]
    /\ UNCHANGED <<freeMap, disk, panic, baseMap, last, table, hdrState, treeState, schedState>>

\* directory->FindisDir(name)
DoFindisDir(name) ==
    /\ LET r == FindisDir(table, name)
       IN  lastDir' = [op |-> "FindisDir", name |-> name, ok |-> r.value # NotFound,
                       value |-> r.value, reads |-> r.reads]
    /\ UNCHANGED <<freeMap, disk, panic, baseMap, last, table, hdrState, treeState, schedState>>

\* directory->IsDir(name)
DoIsDir(name) ==
    /\ \E r \in IsDir(table, name) :
          lastDir' = [op |-> "IsDir", name |-> name, ok |-> r.value # NotFound,
                      value |-> r.value, reads |-> r.reads]
    /\ UNCHANGED <<freeMap, disk, panic, baseMap, last, table, hdrState, treeState, schedState>>

\* directory->RecursiveList(0)
DoRecursiveList ==
    /\ LET r == RecursiveList(table, tables, 0)
       IN  lastDir' = [op |-> "RecursiveList", name |-> <<>>, ok |-> TRUE,
                       printed |-> r.printed, opened |-> r.opened]
    /\ UNCHANGED <<freeMap, disk, panic, baseMap, last, table, hdrState, treeState, schedState>>

NextDir ==
    \/ \E name \in Names, arg \in AddArgs : DoAdd(name, arg.sector, arg.isDir)
    \/ \E name \in Names : DoRemove(name)

SpecDir == InitDir /\ [][NextDir]_vars

\* The directory with its read-only calls between the Adds and Removes.
NextQuery ==
    \/ NextDir
    \/ \E name \in Names : DoFind(name)
    \/ \E name \in Names : DoFindisDir(name)
    \/ \E name \in Names : DoIsDir(name)
    \/ DoRecursiveList

SpecQuery == InitDir /\ [][NextQuery]_vars

\* ------------------------------------------------------------ directory tree
Init ==
    /\ freeMap \in TreeInitMaps
    /\ disk = [s \in Sectors |-> ZeroSector]
    /\ hdr = NewFileHeader
    /\ hdrSector = -1
    /\ pc = "fresh"
    /\ panic = FALSE
    /\ table = NewDirectory
    /\ tables = [s \in Sectors |-> NewDirectory]
    /\ creates = 0
    /\ baseMap = freeMap
    /\ buildOK = TRUE
    /\ last = NoCall
    /\ lastDir = NoDirCall
    /\ SchedIdle

\* Create a file of size bytes, or a subdirectory, named name in the
\* directory at path.
Create(path, name, size, isDir) ==
    /\ ~panic /\ creates < MaxCreates
    /\ LET where == ResolveFrom(ROOT, table, tables, path)
           r == CreateIn(table, freeMap, disk, tables, where.loc, name, size, isDir)
       IN  /\ where.found
           /\ freeMap' = r.map
           /\ disk' = r.disk
           /\ table' = r.table
           /\ tables' = r.tables
           /\ panic' = ~r.assertOK
           /\ buildOK' = (buildOK /\ r.ok)
           /\ last' = [NoCall EXCEPT !.op = "Create",
                                     !.size = IF isDir THEN DirectoryFileSize ELSE size,
                                     !.ok = r.ok,
                                     !.preClear = NumClear(freeMap),
                                     !.preMap = freeMap,
                                     !.built = buildOK]
    /\ creates' = creates + 1
    /\ UNCHANGED <<hdrState, baseMap, lastDir, schedState>>

\* directory->RecursiveRemove(freeMap) on the root directory.
DoRecursiveRemove ==
    /\ ~panic
    /\ LET r == RecursiveRemove(table, freeMap, disk, tables)
       IN  /\ freeMap' = r.map
           /\ table' = r.table
           /\ tables' = r.tables
           /\ panic' = ~r.assertOK
           /\ baseMap' = r.map
           /\ last' = [NoCall EXCEPT !.op = "RecursiveRemove",
                                     !.ok = r.assertOK,
                                     !.preClear = NumClear(baseMap),
                                     !.preMap = baseMap,
                                     !.cleared = r.cleared,
                                     !.files = r.files, !.dirs = r.dirs,
                                     !.written = r.written,
                                     !.built = buildOK]
    /\ buildOK' = TRUE
    /\ UNCHANGED <<disk, hdrState, creates, lastDir, schedState>>

Next ==
    \/ \E path \in Paths, name \in TreeNames, size \in TreeSizes :
          Create(path, name, size, FALSE)
    \/ \E path \in Paths, name \in TreeNames :
          Create(path, name, DirectoryFileSize, TRUE)
    \/ DoRecursiveRemove

Spec == Init /\ [][Next]_vars

\* ------------------------------------------------------------ scheduler calls
\* The file system untouched, one thread running (kernel->currentThread) and
\* the others created and not yet ready.  A thread's number is only its name
\* here: the threads are numbered by ascending priority and predicted burst,
\* and become ready in any order.
InitSched ==
    /\ freeMap = [s \in Sectors |-> s < 2]
    /\ disk = [s \in Sectors |-> ZeroSector]
    /\ hdr = NewFileHeader
    /\ hdrSector = -1
    /\ pc = "fresh"
    /\ panic = FALSE
    /\ table = NewDirectory
    /\ tables = [s \in Sectors |-> NewDirectory]
    /\ creates = 0
    /\ baseMap = freeMap
    /\ buildOK = TRUE
    /\ last = NoCall
    /\ lastDir = NoDirCall
    /\ L1 = <<>> /\ L2 = <<>> /\ L3 = <<>>
    /\ \E created \in [Threads -> {NewThread(p, b) : p \in InitPriorities, b \in Bursts}] :
          /\ \A t \in Threads : t + 1 \in Threads =>
                 \/ created[t].priority < created[t + 1].priority
                 \/ /\ created[t].priority = created[t + 1].priority
                    /\ created[t].predict <= created[t + 1].predict
          /\ currentThread \in Threads
          /\ threads = [created EXCEPT ![currentThread].status = "RUNNING"]
    /\ toBeDestroyed = NULL
    /\ agings = 0
    /\ lastSched = NoSchedCall

fsState == <<freeMap, disk, baseMap, last, hdrState, dirState, treeState>>

Sched == SchedState(L1, L2, L3, threads)

SetSched(q) ==
    /\ L1' = q.L1
    /\ L2' = q.L2
    /\ L3' = q.L3
    /\ threads' = q.threads

\* FindNextToRun has returned a thread and Run has not been called for it yet.
\* Its callers (Thread::Yield, Thread::Sleep) pass the thread to Run with
\* interrupts off all the way; Yield's ReadyToRun of the old thread, which
\* comes between the two, is taken after Run here, Run leaving the queues alone.
Dispatching == lastSched.op = "FindNextToRun" /\ lastSched.thread # NULL

\* Run has reached SWITCH: the thread switched in calls CheckToBeDestroyed
\* before anything else, interrupts still off.
Switching == lastSched.op = "Run"

\* kernel->scheduler->ReadyToRun(t) as the kernel calls it: for a thread just
\* created (Thread::Fork), for the running thread (Thread::Yield) or for a
\* blocked one that is woken up; never for a thread that is READY already,
\* which is in a queue, nor for one that has been deleted.
CallReadyToRun(t) ==
    /\ ~panic /\ ~Dispatching /\ ~Switching
    /\ threads[t].status \notin {"READY", "DELETED"}
    /\ SetSched(ReadyToRun(Sched, t))
    /\ lastSched' = [op |-> "ReadyToRun", thread |-> t,
                     level |-> LevelOf(threads[t].priority),
                     queue |-> <<>>]
    /\ UNCHANGED <<currentThread, toBeDestroyed, agings, panic, fsState>>

\* kernel->scheduler->FindNextToRun()
CallFindNextToRun ==
    /\ ~panic /\ ~Dispatching /\ ~Switching
    /\ LET r == FindNextToRun(Sched)
       IN  /\ SetSched(r.sched)
           /\ lastSched' = [op |-> "FindNextToRun", thread |-> r.thread,
                            level |-> r.level, queue |-> QueueOf(Sched, r.level)]
    /\ UNCHANGED <<currentThread, toBeDestroyed, agings, panic, fsState>>

\* The timer's call of kernel->scheduler->DoAgeThreeQueue(), one period after
\* the last.
CallDoAgeThreeQueue ==
    /\ ~panic /\ agings < MaxAgings
    /\ ~Dispatching /\ ~Switching
    /\ agings' = agings + 1
    /\ \E r \in DoAgeThreeQueue(TimePasses(Sched)) :
          /\ SetSched(r.sched)
          /\ panic' = r.fault
    /\ lastSched' = [op |-> "DoAgeThreeQueue", thread |-> NULL,
                     level |-> 0, queue |-> <<>>]
    /\ UNCHANGED <<currentThread, toBeDestroyed, fsState>>

\* Scheduler::Run(nextThread, finishing) up to SWITCH, for the thread that
\* FindNextToRun has just returned.  finishing is TRUE when the running thread
\* ends (Thread::Finish), which is then in no queue; ASSERT(toBeDestroyed ==
\* NULL) holds, CheckToBeDestroyed having followed the last Run.
CallRun(t, finishing) ==
    /\ ~panic /\ Dispatching
    /\ lastSched.thread = t
    /\ finishing => threads[currentThread].status = "RUNNING"
    /\ finishing => toBeDestroyed = NULL
    /\ LET r == Run(threads, currentThread, toBeDestroyed, t, finishing)
       IN  /\ threads' = r.threads
           /\ currentThread' = r.currentThread
           /\ toBeDestroyed' = r.toBeDestroyed
    /\ lastSched' = [op |-> "Run", thread |-> t, level |-> 0, queue |-> <<>>]
    /\ UNCHANGED <<L1, L2, L3, agings, panic, fsState>>

\* CheckToBeDestroyed() in the thread switched in: line 245 when it resumes
\* inside its own call of Run, Thread::Begin when it runs for the first time.
CallCheckToBeDestroyed ==
    /\ ~panic /\ Switching
    /\ threads' = CheckToBeDestroyed(threads, toBeDestroyed)
    /\ toBeDestroyed' = NULL
    /\ lastSched' = [op |-> "CheckToBeDestroyed", thread |-> toBeDestroyed,
                     level |-> 0, queue |-> <<>>]
    /\ UNCHANGED <<L1, L2, L3, currentThread, agings, panic, fsState>>

NextSched ==
    \/ \E t \in Threads : CallReadyToRun(t)
    \/ CallFindNextToRun
    \/ CallDoAgeThreeQueue
    \/ \E t \in Threads, finishing \in BOOLEAN : CallRun(t, finishing)
    \/ CallCheckToBeDestroyed

SpecSched == InitSched /\ [][NextSched]_vars

\* The timer's call of DoAgeThreeQueue for as long as the kernel runs: agings
\* counts the calls up to MaxAgings.
TimerDoAgeThreeQueue ==
    /\ ~panic /\ ~Dispatching /\ ~Switching
    /\ agings' = IF agings < MaxAgings THEN agings + 1 ELSE agings
    /\ \E r \in DoAgeThreeQueue(TimePasses(Sched)) :
          /\ SetSched(r.sched)
          /\ panic' = r.fault
    /\ lastSched' = [op |-> "DoAgeThreeQueue", thread |-> NULL,
                     level |-> 0, queue |-> <<>>]
    /\ UNCHANGED <<currentThread, toBeDestroyed, fsState>>

NextSchedFair ==
    \/ \E t \in Threads : CallReadyToRun(t)
    \/ CallFindNextToRun
    \/ TimerDoAgeThreeQueue
    \/ \E t \in Threads, finishing \in BOOLEAN : CallRun(t, finishing)
    \/ CallCheckToBeDestroyed

\* The scheduler in a kernel that keeps running: the timer keeps calling
\* DoAgeThreeQueue and the running thread keeps giving up the processor
\* (FindNextToRun, then Run for the thread returned, then CheckToBeDestroyed).
\* The first two are held up only while a thread is being dispatched, which
\* Run and CheckToBeDestroyed end, hence strong fairness.  Whether a thread
\* becomes ready again, blocks for ever or finishes is left open.
SpecSchedFair ==
    /\ InitSched
    /\ [][NextSchedFair]_vars
    /\ SF_vars(TimerDoAgeThreeQueue)
    /\ SF_vars(CallFindNextToRun)
    /\ WF_vars(\E t \in Threads : CallRun(t, FALSE))
    /\ WF_vars(CallCheckToBeDestroyed)

\* ======================================================================
\* Properties of the file header, checked under SpecHdr
\* ======================================================================

\* The number of child-header sectors in the index tree of a file of n bytes.
RECURSIVE IndexSectors(_)
IndexSectors(n) ==
    IF n <= OneLevelSize THEN 0
    ELSE LET chunk == IF n > ThreeLevelSize THEN ThreeLevelSize
                      ELSE IF n > TwoLevelSize THEN TwoLevelSize
                      ELSE OneLevelSize
             full == n \div chunk
             rest == n % chunk
         IN  full * (1 + IndexSectors(chunk))
               + (IF rest > 0 THEN 1 + IndexSectors(rest) ELSE 0)

AllocateReturned == last.op = "Allocate" /\ ~panic
AllocateFailed == AllocateReturned /\ ~last.ok
AllocateSucceeded == AllocateReturned /\ last.ok

\* C1: when Allocate returns failure, NumClear() is what it was before the
\* call (every sector reserved during the call has been cleared again).
C1_FailedAllocateRestoresNumClear ==
    AllocateFailed => NumClear(freeMap) = last.preClear

\* C2 (as stated): for 0 <= n <= ThreeLevelSize and NumClear() >= ceil(n/S)
\* before the call, Allocate(n) returns success.
C2_DataSectorsSuffice ==
    (last.op = "Allocate" /\ last.size <= ThreeLevelSize
        /\ last.preClear >= divRoundUp(last.size, SectorSize))
    => (~panic /\ last.ok)

\* C2 (amended): for 0 <= n <= ThreeLevelSize and NumClear() >= ceil(n/S)
\* plus the number of child-header sectors of the tree of n bytes, Allocate(n)
\* returns success.
C2_DataAndIndexSectorsSuffice ==
    (last.op = "Allocate" /\ last.size <= ThreeLevelSize
        /\ last.preClear >= divRoundUp(last.size, SectorSize)
                              + IndexSectors(last.size))
    => (~panic /\ last.ok)

C2_Witness ==
    /\ AllocateSucceeded
    /\ last.size > TwoLevelSize /\ last.size <= ThreeLevelSize
    /\ last.preClear = divRoundUp(last.size, SectorSize) + IndexSectors(last.size)

\* C3: after a successful Allocate(n), every offset o < n is translated by
\* ByteToSector to a data sector this call reserved (free before the call,
\* used now, not a child-header sector); two offsets get the same sector
\* exactly when they lie in the same SectorSize-byte block.
C3_ByteToSectorHitsReservedData ==
    (AllocateSucceeded /\ pc = "allocated") =>
        /\ \A o \in 0 .. (last.size - 1) :
              LET s == ByteToSector(disk, hdr, o)
              IN  /\ s \in last.data
                  /\ s \notin last.index
                  /\ ~last.preMap[s]
                  /\ freeMap[s]
        /\ LET sectorOf == [o \in 0 .. (last.size - 1) |-> ByteToSector(disk, hdr, o)]
           IN  \A o1, o2 \in 0 .. (last.size - 1) :
                 (o1 \div SectorSize = o2 \div SectorSize)
                   <=> (sectorOf[o1] = sectorOf[o2])

C3_Witness ==
    /\ AllocateSucceeded /\ pc = "allocated"
    /\ last.size > TwoLevelSize
    /\ last.index # {}
    /\ \E s \in Sectors : last.preMap[s] /\ \E d \in last.data \cup last.index : d < s

\* C4: once a successfully allocated header has been deallocated and its own
\* sector cleared, the bitmap is what it was before the header's sector and
\* its blocks were reserved.
C4_DeallocateRestoresNumClear ==
    (last.op = "ClearOwn" /\ ~panic) =>
        /\ NumClear(freeMap) = NumClear(baseMap)
        /\ freeMap = baseMap

C4_Witness ==
    /\ last.op = "ClearOwn" /\ ~panic
    /\ last.size > TwoLevelSize

\* C10: no ASSERT(dataSectors[i] >= 0) fails inside Allocate: running out of
\* sectors is reported by the return value.
C10_AllocateNeverPanics ==
    last.op = "Allocate" => ~panic

\* ======================================================================
\* Properties of the directory, checked under SpecDir
\* ======================================================================

\* The first FileNameMaxLen characters of a name.
Prefix(name) == SubSeq(name, 1, IF Len(name) < FileNameMaxLen THEN Len(name)
                                ELSE FileNameMaxLen)

InUseSlots(tbl) == {i \in Slots : tbl[i].inUse}
Bound(tbl, name) == \E i \in InUseSlots(tbl) : Prefix(tbl[i].name) = Prefix(name)
Full(tbl) == InUseSlots(tbl) = Slots

\* C7: no two in-use entries have names that agree on their first
\* FileNameMaxLen characters.
C7_InUseNamesDistinct ==
    \A i, j \in InUseSlots(table) :
        i # j => Prefix(table[i].name) # Prefix(table[j].name)

C7_Witness ==
    /\ InUseSlots(table) # {}
    /\ lastDir.op = "Add" /\ ~lastDir.ok
    /\ Len(lastDir.name) > FileNameMaxLen
    /\ ~Full(table)

\* C8: Add fails exactly when the name is already bound or every slot is in
\* use; a failed Add leaves the table unchanged, and every other Add
\* succeeds and changes the table.
C8_AddFailsExactlyOnDuplicateOrFull ==
    [][lastDir'.op = "Add" =>
        /\ ~lastDir'.ok <=> (Bound(table, lastDir'.name) \/ Full(table))
        /\ ~lastDir'.ok => table' = table
        /\ lastDir'.ok => table' # table]_vars

\* An Add that failed on a full table although the name was not bound (a
\* failed Add leaves the table as it was).
C8_Witness ==
    /\ lastDir.op = "Add" /\ ~lastDir.ok
    /\ Full(table) /\ ~Bound(table, lastDir.name)

\* C9: Remove of a bound name clears the inUse flag of the matching entry and
\* changes nothing else (no other entry, no other field, no header on disk,
\* no bit of the bitmap); Remove of an unbound name fails and changes nothing.
C9_RemoveClearsOnlyInUse ==
    [][lastDir'.op = "Remove" =>
        /\ freeMap' = freeMap /\ disk' = disk /\ tables' = tables
        /\ lastDir'.ok <=> Bound(table, lastDir'.name)
        /\ ~lastDir'.ok => table' = table
        /\ lastDir'.ok =>
             \E i \in InUseSlots(table) :
                /\ Prefix(table[i].name) = Prefix(lastDir'.name)
                /\ table' = [table EXCEPT ![i].inUse = FALSE]]_vars

\* A Remove through an alias of the stored name, with another entry in use
\* and the removed entry's fields still in its slot.
C9_Witness ==
    /\ lastDir.op = "Remove" /\ lastDir.ok
    /\ Len(lastDir.name) > FileNameMaxLen
    /\ InUseSlots(table) # {}
    /\ \E i \in Slots \ InUseSlots(table) :
          /\ Prefix(table[i].name) = Prefix(lastDir.name)
          /\ table[i].sector \in SectorArgs

\* ======================================================================
\* Properties of the directory tree, checked under Spec
\* ======================================================================

Used(map) == {s \in Sectors : map[s]}
Range(seq) == {seq[k] : k \in 1 .. Len(seq)}
NoDuplicates(seq) == Cardinality(Range(seq)) = Len(seq)

\* The sectors a header references, directly or through child headers, one
\* element per reference.
RECURSIVE HeaderRefs(_, _, _)
HeaderRefs(dsk, h, i) ==
    IF i >= h.numSectors THEN <<>>
    ELSE LET s == h.dataSectors[i]
         IN  <<s>> \o (IF h.numBytes > OneLevelSize
                       THEN HeaderRefs(dsk, dsk[s], 0) ELSE <<>>)
                  \o HeaderRefs(dsk, h, i + 1)

\* The sectors the entries of a table reference: each in-use entry's header
\* sector, what that header references and, for a subdirectory, what the
\* nested table references; one element per reference.
RECURSIVE TableRefs(_, _, _, _)
TableRefs(tbl, dsk, tbls, i) ==
    IF i >= NumDirEntries THEN <<>>
    ELSE IF ~tbl[i].inUse THEN TableRefs(tbl, dsk, tbls, i + 1)
    ELSE LET s == tbl[i].sector
         IN  <<s>> \o HeaderRefs(dsk, dsk[s], 0)
                  \o (IF tbl[i].isDir THEN TableRefs(tbls[s], dsk, tbls, 0) ELSE <<>>)
                  \o TableRefs(tbl, dsk, tbls, i + 1)

LiveRefs == TableRefs(table, disk, tables, 0)

\* C5: RecursiveRemove on the root of a tree of files and nested
\* subdirectories, all created successfully, leaves NumClear() at its value
\* before the tree was built and clears no sector twice.
C5_RecursiveRemoveFreesTreeOnce ==
    (last.op = "RecursiveRemove" /\ last.built) =>
        /\ ~panic
        /\ NumClear(freeMap) = last.preClear
        /\ freeMap = last.preMap
        /\ NoDuplicates(last.cleared)

C5_Witness ==
    /\ last.op = "RecursiveRemove" /\ last.built /\ ~panic
    /\ last.dirs >= 2 /\ last.files >= 1
    /\ Len(last.cleared) > NumDirect + 2 * (1 + NumDirEntries)

\* C6: the sectors marked used are exactly the sectors that were used before
\* the tree was started plus the sectors the tree's live structures
\* reference, and every sector is referenced by one structure only.
C6_UsedSectorsAreExactlyTheReferencedOnes ==
    /\ NoDuplicates(LiveRefs)
    /\ Range(LiveRefs) \cap Used(baseMap) = {}
    /\ Used(freeMap) = Used(baseMap) \cup Range(LiveRefs)

\* While no creation has failed, the bitmap and the tree agree.
UsedMatchesRefsWhileBuildOK ==
    (buildOK /\ ~panic) => C6_UsedSectorsAreExactlyTheReferencedOnes

\* ======================================================================
\* Further properties of the file header, checked under SpecHdr
\* ======================================================================

MaxOf(S) == CHOOSE x \in S : \A y \in S : y <= x

\* The pointer slots of the header that hold a sector the last Allocate
\* reserved.
ValidPointers == {i \in 0 .. (NumDirect - 1) :
                     hdr.dataSectors[i] \in last.data \cup last.index}

\* The number of levels of file headers under (and including) h, a header
\* being interior when its pointers are child-header sectors.
RECURSIVE Levels(_, _, _)
Levels(dsk, h, index) ==
    LET kids == {i \in 0 .. (NumDirect - 1) :
                    i < h.numSectors /\ h.dataSectors[i] \in index}
    IN  IF kids = {} THEN 1
        ELSE 1 + MaxOf({Levels(dsk, dsk[h.dataSectors[i]], index) : i \in kids})

\* The number of headers ByteToSector(offset) goes through, this one included.
RECURSIVE HeadersVisited(_, _, _)
HeadersVisited(dsk, h, offset) ==
    LET chunk == IF h.numBytes > ThreeLevelSize THEN ThreeLevelSize
                 ELSE IF h.numBytes > TwoLevelSize THEN TwoLevelSize
                 ELSE OneLevelSize
    IN  IF h.numBytes > OneLevelSize
        THEN LET sector == divRoundDown(offset, chunk)
             IN  1 + HeadersVisited(dsk, dsk[h.dataSectors[sector]],
                                    offset - sector * chunk)
        ELSE 1

\* C13: a successful Allocate(n) with OneLevelSize < n <= TwoLevelSize builds
\* a root with ceil(n / OneLevelSize) children; every child but the last is a
\* leaf of OneLevelSize bytes with NumDirect data sectors, and the last is a
\* leaf of the remaining bytes with ceil(remaining / SectorSize) data sectors.
C13_TwoLevelShape ==
    (AllocateSucceeded /\ last.size > OneLevelSize /\ last.size <= TwoLevelSize) =>
        LET n == divRoundUp(last.size, OneLevelSize)
        IN  /\ hdr.numSectors = n
            /\ hdr.numBytes = last.size
            /\ last.index = {hdr.dataSectors[i] : i \in 0 .. (n - 1)}
            /\ Cardinality(last.index) = n
            /\ \A i \in 0 .. (n - 1) :
                  LET c == disk[hdr.dataSectors[i]]
                      bytes == IF i < n - 1 THEN OneLevelSize
                               ELSE last.size - (n - 1) * OneLevelSize
                  IN  /\ c.numBytes = bytes
                      /\ c.numSectors = divRoundUp(bytes, SectorSize)
                      /\ i < n - 1 => c.numSectors = NumDirect
                      /\ \A j \in 0 .. (c.numSectors - 1) :
                            c.dataSectors[j] \in last.data
                      /\ Cardinality({c.dataSectors[j] : j \in 0 .. (c.numSectors - 1)})
                           = c.numSectors

\* A two-level file whose last child is a partial leaf.
C13_Witness ==
    /\ AllocateSucceeded
    /\ last.size > OneLevelSize /\ last.size < TwoLevelSize
    /\ last.size % OneLevelSize # 0
    /\ hdr.numSectors >= 2

\* C14: after Allocate has returned, with success or with failure, numSectors
\* is at most NumDirect and equals the number of pointer slots that hold a
\* sector reserved for this header.
C14_DirectCountMatchesPointers ==
    AllocateReturned =>
        /\ hdr.numSectors <= NumDirect
        /\ hdr.numSectors = Cardinality(ValidPointers)

\* C15: Deallocate clears every data sector and every child-header sector
\* reachable from the header, nothing else, and not the header's own sector.
C15_DeallocateClearsReachableOnly ==
    (last.op = "Deallocate" /\ ~panic) =>
        LET refs == Range(HeaderRefs(disk, hdr, 0))
        IN  /\ Range(last.cleared) = refs
            /\ \A s \in refs : last.preMap[s] /\ ~freeMap[s]
            /\ \A s \in Sectors \ refs : freeMap[s] = last.preMap[s]
            /\ hdrSector >= 0 => (freeMap[hdrSector] /\ hdrSector \notin refs)

C15_Witness ==
    /\ last.op = "Deallocate" /\ ~panic
    /\ hdrSector >= 0
    /\ last.size > TwoLevelSize
    /\ Len(last.cleared) > NumDirect

\* C18: for every size Allocate accepts, the tree has at most 3 levels of file
\* headers, ByteToSector goes through at most 3 headers, and the tree covers
\* at most ThreeLevelSize bytes.
C18_AtMostThreeLevels ==
    AllocateSucceeded =>
        /\ Levels(disk, hdr, last.index) <= 3
        /\ \A o \in 0 .. (last.size - 1) : HeadersVisited(disk, hdr, o) <= 3
        /\ last.size <= ThreeLevelSize

\* Up to ThreeLevelSize bytes the bound of 3 holds: the fourth level comes
\* only from the branch fileSize > ThreeLevelSize of Allocate.
ThreeLevelsUpToThreeLevelSize ==
    (AllocateSucceeded /\ last.size <= ThreeLevelSize) =>
        /\ Levels(disk, hdr, last.index) <= 3
        /\ \A o \in 0 .. (last.size - 1) : HeadersVisited(disk, hdr, o) <= 3

\* Allocate has accepted more than ThreeLevelSize bytes and built four levels
\* of headers, through which ByteToSector goes.
FourLevelsAboveThreeLevelSize ==
    /\ AllocateSucceeded
    /\ last.size > ThreeLevelSize
    /\ Levels(disk, hdr, last.index) = 4
    /\ \E o \in 0 .. (last.size - 1) : HeadersVisited(disk, hdr, o) = 4

\* C19: when NumClear() is smaller than ceil(n / SectorSize) as Allocate(n)
\* starts, Allocate returns failure at once: no bit of the bitmap changes and
\* no sector is written.
C19_ShortOfDataSectorsFailsAtOnce ==
    [][(last'.op = "Allocate"
          /\ NumClear(freeMap) < divRoundUp(last'.size, SectorSize)) =>
        /\ ~last'.ok
        /\ ~panic'
        /\ freeMap' = freeMap
        /\ disk' = disk]_vars

\* Such a failure of a multi-level file while some sectors were still free.
C19_Witness ==
    /\ AllocateFailed
    /\ last.preClear < divRoundUp(last.size, SectorSize)
    /\ last.preClear > 0
    /\ last.size > OneLevelSize
    /\ freeMap = last.preMap

\* ======================================================================
\* Properties of the directory's read-only calls, checked under SpecQuery,
\* and further properties of Add and Remove, checked under SpecDir
\* ======================================================================

Queries == {"Find", "FindisDir", "IsDir"}

\* C11: Find, FindisDir and IsDir on a name that no in-use entry binds return
\* the not-found result and read no table slot outside 0 .. NumDirEntries-1;
\* on a bound name they return the entry's sector (Find) or its isDir flag.
C11_QueriesReportNotFoundInBounds ==
    lastDir.op \in Queries =>
        /\ lastDir.reads \subseteq Slots
        /\ IF Bound(table, lastDir.name)
           THEN \E i \in InUseSlots(table) :
                   /\ Prefix(table[i].name) = Prefix(lastDir.name)
                   /\ lastDir.value = IF lastDir.op = "Find" THEN table[i].sector
                                      ELSE BoolToInt(table[i].isDir)
           ELSE lastDir.value = NotFound

\* Find and FindisDir alone do what C11 says.
FindAndFindisDirReportNotFound ==
    lastDir.op \in {"Find", "FindisDir"} => C11_QueriesReportNotFoundInBounds

\* IsDir on a bound name does what C11 says.
IsDirOnBoundNameReturnsFlag ==
    (lastDir.op = "IsDir" /\ Bound(table, lastDir.name))
        => C11_QueriesReportNotFoundInBounds

\* C12: RecursiveList opens the header sector of a slot only if the slot is
\* in use.
C12_RecursiveListOpensInUseSlotsOnly ==
    lastDir.op = "RecursiveList" =>
        \A k \in 1 .. Len(lastDir.opened) : lastDir.opened[k].inUse

\* RecursiveList prints the in-use entries, and opens every in-use
\* subdirectory.
RecursiveListPrintsInUseEntries ==
    lastDir.op = "RecursiveList" =>
        /\ {[isDir |-> l.isDir, name |-> l.name] : l \in Range(lastDir.printed)}
             = {[isDir |-> table[i].isDir, name |-> table[i].name] :
                   i \in InUseSlots(table)}
        /\ \A i \in InUseSlots(table) :
              table[i].isDir =>
                 [sector |-> table[i].sector, inUse |-> TRUE]
                    \in Range(lastDir.opened)

\* C16: two names that agree on their first FileNameMaxLen characters are the
\* same entry for FindIndex, Add and Remove: when one is bound, FindIndex of
\* the other returns its slot, Add of the other fails and changes nothing,
\* and Remove of the other removes that entry.
C16_NamesAliasOnPrefix ==
    \A n1, n2 \in Names :
        (n1 # n2 /\ Prefix(n1) = Prefix(n2)) =>
            /\ FindIndex(table, n1) = FindIndex(table, n2)
            /\ \A arg \in AddArgs :
                  Add(table, n1, arg.sector, arg.isDir)
                    = Add(table, n2, arg.sector, arg.isDir)
            /\ Remove(table, n1) = Remove(table, n2)
            /\ Bound(table, n1) =>
                  LET i == FindIndex(table, n2)
                  IN  /\ i \in InUseSlots(table)
                      /\ Prefix(table[i].name) = Prefix(n1)
                      /\ \A arg \in AddArgs :
                            /\ ~Add(table, n2, arg.sector, arg.isDir).ok
                            /\ Add(table, n2, arg.sector, arg.isDir).table = table
                      /\ Remove(table, n2).ok
                      /\ Remove(table, n2).table = [table EXCEPT ![i].inUse = FALSE]

\* A name added in its long form and found in its short form, in the second
\* slot.
C16_Witness ==
    /\ lastDir.op = "Add" /\ lastDir.ok
    /\ Len(lastDir.name) > FileNameMaxLen
    /\ FindIndex(table, Prefix(lastDir.name)) > 0
    /\ ~Add(table, Prefix(lastDir.name), 1, FALSE).ok

\* C17: a successful Add fills the lowest-indexed slot that is not in use
\* when it is called (so a slot freed by Remove is used again), sets that
\* slot's name (its first FileNameMaxLen characters), sector and isDir flag
\* to the arguments, and leaves every other slot unchanged.
C17_AddFillsLowestFreeSlot ==
    [][(lastDir'.op = "Add" /\ lastDir'.ok) =>
          \A arg \in AddArgs :
             DoAdd(lastDir'.name, arg.sector, arg.isDir) =>
                \E i \in Slots \ InUseSlots(table) :
                   /\ \A j \in Slots \ InUseSlots(table) : i <= j
                   /\ table'[i] = [inUse |-> TRUE, isDir |-> arg.isDir,
                                   name |-> Prefix(lastDir'.name),
                                   sector |-> arg.sector]
                   /\ \A j \in Slots \ {i} : table'[j] = table[j]]_vars

\* The last Add went to slot 0 while slot 1 was in use: slot 0 had been
\* freed by a Remove.
C17_Witness ==
    /\ lastDir.op = "Add" /\ lastDir.ok
    /\ table[0].inUse /\ table[1].inUse
    /\ table[0].name = Prefix(lastDir.name)
    /\ table[0].isDir # table[1].isDir

\* ======================================================================
\* A further property of the directory tree, checked under Spec
\* ======================================================================

\* C20: every ASSERT of Deallocate (the leaf data sector is still marked
\* used) holds when the headers of a tree, each built by a successful
\* Allocate, are deallocated once each by RecursiveRemove.
C20_DeallocateAssertHolds ==
    last.op = "RecursiveRemove" => (last.ok /\ ~panic)

\* The same for a single header, under SpecHdr.
DeallocateAssertHoldsForOneHeader ==
    last.op = "Deallocate" => (last.ok /\ ~panic)

\* A removal of files and a subdirectory after a creation had failed.
C20_Witness ==
    /\ last.op = "RecursiveRemove" /\ last.ok
    /\ last.files >= 1 /\ last.dirs >= 1
    /\ ~last.built
    /\ Len(last.cleared) > NumDirect

\* ======================================================================
\* The sectors a successful Allocate reserves, checked under SpecHdr
\* ======================================================================

\* C23: a successful Allocate(n) lowers NumClear() by ceil(n / SectorSize)
\* data sectors plus one sector per child header of the tree (none for
\* n <= OneLevelSize, ceil(n / OneLevelSize) for OneLevelSize < n <=
\* TwoLevelSize), and the sectors it reserves are pairwise distinct.
C23_AllocateReservesDataPlusIndex ==
    AllocateSucceeded =>
        LET need == divRoundUp(last.size, SectorSize)
            refs == HeaderRefs(disk, hdr, 0)
        IN  /\ last.preClear - NumClear(freeMap) = need + IndexSectors(last.size)
            /\ last.size <= OneLevelSize => IndexSectors(last.size) = 0
            /\ (last.size > OneLevelSize /\ last.size <= TwoLevelSize) =>
                  IndexSectors(last.size) = divRoundUp(last.size, OneLevelSize)
            /\ Cardinality(last.data) = need
            /\ Cardinality(last.index) = IndexSectors(last.size)
            /\ last.data \cap last.index = {}
            /\ NoDuplicates(refs)
            /\ Range(refs) = last.data \cup last.index
            /\ \A s \in Range(refs) : ~last.preMap[s] /\ freeMap[s]
            /\ \A s \in Sectors \ Range(refs) : freeMap[s] = last.preMap[s]

\* A three-level file reserved from a bitmap with holes.
C23_Witness ==
    /\ AllocateSucceeded
    /\ last.size > TwoLevelSize /\ last.size <= ThreeLevelSize
    /\ last.index # {}
    /\ \E s \in Sectors :
          /\ last.preMap[s]
          /\ \E d1, d2 \in last.data \cup last.index : d1 < s /\ s < d2

\* ======================================================================
\* Further properties of RecursiveRemove, checked under Spec
\* ======================================================================

\* The header sectors of the subdirectories of a table, nested ones included.
RECURSIVE SubdirSectors(_, _, _)
SubdirSectors(tbl, tbls, i) ==
    IF i >= NumDirEntries THEN {}
    ELSE (IF tbl[i].inUse /\ tbl[i].isDir
          THEN {tbl[i].sector} \cup SubdirSectors(tbls[tbl[i].sector], tbls, 0)
          ELSE {})
         \cup SubdirSectors(tbl, tbls, i + 1)

\* C21: during RecursiveRemove the emptied table of a nested subdirectory is
\* written back while the sectors it is written to are still marked used;
\* they, and the subdirectory's header sector, are cleared afterwards.
C21_NestedTableWrittenBeforeFreed ==
    last.op = "RecursiveRemove" =>
        \A k \in 1 .. Len(last.written) :
            LET w == last.written[k]
            IN  /\ w.blocks # {}
                /\ w.used = w.blocks
                /\ w.blocks \subseteq Range(last.cleared)
                /\ w.dir \in Range(last.cleared)
                /\ \A s \in w.blocks \cup {w.dir} : ~freeMap[s]

\* A removal that wrote back a subdirectory's table and the table of a
\* subdirectory nested in it.
C21_Witness ==
    /\ last.op = "RecursiveRemove" /\ last.ok
    /\ Len(last.written) >= 2
    /\ last.dirs >= 2
    /\ \E s \in Sectors : \E i \in Slots :
          tables[s][i].isDir /\ tables[s][i].name # <<>>

\* C22: when RecursiveRemove returns, no entry of the table it was called on
\* is in use, and every nested subdirectory's table has been written back
\* with no entry in use.
C22_RecursiveRemoveEmptiesEveryTable ==
    [][(last'.op = "RecursiveRemove" /\ ~panic') =>
        /\ InUseSlots(table') = {}
        /\ {last'.written[k].dir : k \in 1 .. Len(last'.written)}
             = SubdirSectors(table, tables, 0)
        /\ \A s \in SubdirSectors(table, tables, 0) :
              InUseSlots(tables'[s]) = {}
        /\ \A s \in Sectors \ SubdirSectors(table, tables, 0) :
              tables'[s] = tables[s]]_vars

\* A removal of a table that held a file and a subdirectory with a file in
\* it: the entries are still in their slots, none in use.
C22_Witness ==
    /\ last.op = "RecursiveRemove" /\ last.ok
    /\ last.files >= 2 /\ last.dirs >= 1
    /\ InUseSlots(table) = {}
    /\ \E i, j \in Slots : table[i].isDir /\ ~table[j].isDir /\ table[j].name # <<>>
    /\ \E k \in 1 .. Len(last.written) :
          \E i \in Slots : tables[last.written[k].dir][i].name # <<>>

\* ======================================================================
\* Properties of the scheduler, checked under SpecSched
\* ======================================================================

InQueue(list, t) == \E k \in DOMAIN list : list[k] = t

\* C24: FindNextToRun returns a thread of L2 only when L1 is empty, a thread
\* of L3 only when L1 and L2 are empty, NULL only when all three queues are
\* empty, and the thread it returns is in no queue afterwards.
C24_FindNextToRunTakesHighestLevel ==
    [][lastSched'.op = "FindNextToRun" =>
         LET t == lastSched'.thread
         IN  /\ t = NULL => (L1 = <<>> /\ L2 = <<>> /\ L3 = <<>>)
             /\ t # NULL =>
                  /\ InQueue(L1, t) \/ InQueue(L2, t) \/ InQueue(L3, t)
                  /\ InQueue(L2, t) => L1 = <<>>
                  /\ InQueue(L3, t) => (L1 = <<>> /\ L2 = <<>>)
                  /\ ~InQueue(L1', t) /\ ~InQueue(L2', t) /\ ~InQueue(L3', t)]_vars

\* FindNextToRun has returned a thread of L2 while L3 held a thread.
C24_Witness ==
    /\ lastSched.op = "FindNextToRun"
    /\ lastSched.level = 2
    /\ L3 # <<>>

FindNextToRunReturnsFromL3 ==
    /\ lastSched.op = "FindNextToRun"
    /\ lastSched.level = 3
    /\ lastSched.thread # NULL

FindNextToRunReturnsNull ==
    /\ lastSched.op = "FindNextToRun"
    /\ lastSched.thread = NULL
    /\ \E t \in Threads : threads[t].status = "RUNNING"

\* The place of thread t in a queue that holds it.
IndexOf(list, t) == CHOOSE k \in DOMAIN list : list[k] = t

\* C25: FindNextToRun picks from L1 the thread with the smallest predicted
\* burst, from L2 the thread with the highest priority, from L3 the thread at
\* the front; among equal candidates in L1 or L2 it picks the one nearest the
\* front, which is the one inserted earliest.
C25_FindNextToRunPicksBestEarliest ==
    [][(lastSched'.op = "FindNextToRun" /\ lastSched'.thread # NULL) =>
         LET t == lastSched'.thread
         IN  /\ L1 # <<>> =>
                  /\ InQueue(L1, t)
                  /\ \A k \in DOMAIN L1 :
                        /\ threads[L1[k]].predict >= threads[t].predict
                        /\ k < IndexOf(L1, t) =>
                              threads[L1[k]].predict > threads[t].predict
             /\ (L1 = <<>> /\ L2 # <<>>) =>
                  /\ InQueue(L2, t)
                  /\ \A k \in DOMAIN L2 :
                        /\ threads[L2[k]].priority <= threads[t].priority
                        /\ k < IndexOf(L2, t) =>
                              threads[L2[k]].priority < threads[t].priority
             /\ (L1 = <<>> /\ L2 = <<>>) => t = Head(L3)]_vars

\* FindNextToRun has picked the first of two threads of L1 with the same
\* predicted burst.
C25_Witness ==
    /\ lastSched.op = "FindNextToRun"
    /\ lastSched.level = 1
    /\ Len(lastSched.queue) >= 2
    /\ lastSched.thread = lastSched.queue[1]
    /\ threads[lastSched.queue[2]].predict = threads[lastSched.thread].predict

\* FindNextToRun has picked a thread of L1 that was not at the front.
FindNextToRunPicksBehindFrontOfL1 ==
    /\ lastSched.op = "FindNextToRun"
    /\ lastSched.level = 1
    /\ lastSched.thread # lastSched.queue[1]

\* FindNextToRun has picked a thread of L2 that was not at the front.
FindNextToRunPicksBehindFrontOfL2 ==
    /\ lastSched.op = "FindNextToRun"
    /\ lastSched.level = 2
    /\ lastSched.thread # lastSched.queue[1]

\* FindNextToRun has picked the first of two threads of L2 with the same
\* priority.
FindNextToRunPicksFirstOfEqualL2 ==
    /\ lastSched.op = "FindNextToRun"
    /\ lastSched.level = 2
    /\ Len(lastSched.queue) >= 2
    /\ lastSched.thread = lastSched.queue[1]
    /\ threads[lastSched.queue[2]].priority = threads[lastSched.thread].priority

\* FindNextToRun has picked the front of L3, which held two threads.
FindNextToRunPicksFrontOfL3 ==
    /\ lastSched.op = "FindNextToRun"
    /\ lastSched.level = 3
    /\ Len(lastSched.queue) >= 2
    /\ lastSched.thread = lastSched.queue[1]

QueuedIn(list) == {list[k] : k \in DOMAIN list}

\* C26: after any sequence of ReadyToRun, FindNextToRun and DoAgeThreeQueue
\* calls, every thread in L1 has priority 100..149, every thread in L2 has
\* priority 50..99, every thread in L3 has priority 0..49, and no thread is
\* in more than one queue, nor twice in one.  It holds in every state the
\* kernel reaches, the one a faulting AgeQueue dies in included.
C26_QueuesHoldTheirPriorityRange ==
    /\ \A t \in QueuedIn(L1) : threads[t].priority \in L1Min .. L1Max
    /\ \A t \in QueuedIn(L2) : threads[t].priority \in L2Min .. L2Max
    /\ \A t \in QueuedIn(L3) : threads[t].priority \in L3Min .. L3Max
    /\ QueuedIn(L1) \cap QueuedIn(L2) = {}
    /\ QueuedIn(L1) \cap QueuedIn(L3) = {}
    /\ QueuedIn(L2) \cap QueuedIn(L3) = {}
    /\ \A list \in {L1, L2, L3} :
          \A j, k \in DOMAIN list : list[j] = list[k] => j = k

\* DoAgeThreeQueue has returned, having moved a thread from L3 to L2 and left
\* another thread in L3.
C26_Witness ==
    /\ lastSched.op = "DoAgeThreeQueue" /\ ~panic
    /\ \E t \in QueuedIn(L2) : threads[t].priority = 59 /\ threads[t].waited = 0
    /\ L3 # <<>>

\* The process has died in AgeQueue, on the list element that Removethread
\* deleted under the iterator: the thread moved is in its new queue, the
\* threads behind it in the old queue have not been aged.
AgeQueueFaults ==
    /\ lastSched.op = "DoAgeThreeQueue" /\ panic
    /\ \E t \in QueuedIn(L2) \cup QueuedIn(L1) : threads[t].waited = 0
    /\ \E t \in QueuedIn(L3) \cup QueuedIn(L2) : threads[t].waited = AgeCalls

\* Aging has moved a thread from L2 to L1.
AgingMovesFromL2ToL1 ==
    /\ lastSched.op = "DoAgeThreeQueue"
    /\ \E t \in QueuedIn(L1) : threads[t].priority = 109

\* Aging has raised a thread of L1 to 149 and no further.
AgingStopsAt149 ==
    /\ lastSched.op = "DoAgeThreeQueue"
    /\ \E t \in QueuedIn(L1) : threads[t].priority = L1Max /\ threads[t].waited = 0

\* The number of queues that hold thread t.
QueuesHolding(l1, l2, l3, t) ==
    Cardinality({level \in 1 .. 3 :
                    InQueue(QueueOf(SchedState(l1, l2, l3, threads), level), t)})

\* C28: every call ReadyToRun(thread) sets the thread's status to READY and
\* appends the thread to the tail of exactly one of L1, L2, L3, leaving the
\* other two as they were; afterwards the thread is in exactly one queue.
C28_ReadyToRunAppendsToOneQueue ==
    [][lastSched'.op = "ReadyToRun" =>
         LET t == lastSched'.thread
         IN  /\ threads'[t].status = "READY"
             /\ \/ L1' = Append(L1, t) /\ L2' = L2 /\ L3' = L3
                \/ L1' = L1 /\ L2' = Append(L2, t) /\ L3' = L3
                \/ L1' = L1 /\ L2' = L2 /\ L3' = Append(L3, t)
             /\ QueuesHolding(L1', L2', L3', t) = 1]_vars

\* ReadyToRun has appended a thread behind another one.
C28_Witness ==
    /\ lastSched.op = "ReadyToRun"
    /\ \E list \in {L1, L2, L3} :
          Len(list) >= 2 /\ list[Len(list)] = lastSched.thread

\* ReadyToRun has filed threads of priority 49, 99 and 100 or more: one at the
\* upper end of L3's range, one at the upper end of L2's, one in L1.
ReadyToRunFilesPriority49 ==
    /\ lastSched.op = "ReadyToRun"
    /\ threads[lastSched.thread].priority = L3Max
    /\ InQueue(L3, lastSched.thread)

ReadyToRunFilesPriority99 ==
    /\ lastSched.op = "ReadyToRun"
    /\ threads[lastSched.thread].priority = L2Max
    /\ InQueue(L2, lastSched.thread)

ReadyToRunFilesPriority149 ==
    /\ lastSched.op = "ReadyToRun"
    /\ threads[lastSched.thread].priority = L1Max
    /\ InQueue(L1, lastSched.thread)

\* A READY thread that is in no queue is the one FindNextToRun has just
\* returned and Run has not yet been called for.
ReadyThreadsAreQueuedOrDispatched ==
    \A t \in Threads :
        (threads[t].status = "READY" /\ QueuesHolding(L1, L2, L3, t) = 0) =>
            (lastSched.op = "FindNextToRun" /\ lastSched.thread = t)

\* ASSERT(toBeDestroyed == NULL) of Run (line 213) holds whenever Run is
\* called: CheckToBeDestroyed has emptied toBeDestroyed after the last Run.
RunAssertHolds == Dispatching => toBeDestroyed = NULL

\* No deleted thread is in a queue, is the current thread or is about to run.
DeletedThreadsAreGone ==
    \A t \in Threads :
        threads[t].status = "DELETED" =>
            /\ QueuesHolding(L1, L2, L3, t) = 0
            /\ currentThread # t
            /\ ~(Dispatching /\ lastSched.thread = t)

\* CheckToBeDestroyed has deleted the thread that finished; the thread
\* switched in is the current one.
FinishedThreadDeleted ==
    /\ lastSched.op = "CheckToBeDestroyed"
    /\ lastSched.thread # NULL
    /\ threads[lastSched.thread].status = "DELETED"
    /\ threads[currentThread].status = "RUNNING"

\* ======================================================================
\* Properties of the scheduler in a running kernel, checked under SpecSchedFair
\* ======================================================================

\* C27: if DoAgeThreeQueue and FindNextToRun keep being called, every thread
\* placed in a ready queue by ReadyToRun is eventually returned by
\* FindNextToRun.  The calls keep coming for as long as the kernel lives, so a
\* run in which AgeQueue faults is none the claim speaks of.
C27_EveryReadyThreadIsEventuallyReturned ==
    \A t \in Threads :
        (QueuesHolding(L1, L2, L3, t) = 1)
            ~> \/ lastSched.op = "FindNextToRun" /\ lastSched.thread = t
               \/ panic

\* What aging does give while the kernel lives: every thread placed in a
\* ready queue is eventually returned by FindNextToRun or has reached L1,
\* where the predicted burst alone decides.
AgingLiftsWaitingThreadsToL1 ==
    \A t \in Threads :
        (QueuesHolding(L1, L2, L3, t) = 1)
            ~> \/ lastSched.op = "FindNextToRun" /\ lastSched.thread = t
               \/ InQueue(L1, t)
               \/ panic

\* A thread waits in L1 at priority 149 while FindNextToRun returns another
\* thread of L1, one with a smaller predicted burst that became ready later.
ThreadOfL1PassedOver ==
    /\ lastSched.op = "FindNextToRun"
    /\ lastSched.level = 1
    /\ Len(lastSched.queue) >= 2
    /\ lastSched.thread # lastSched.queue[1]
    /\ threads[lastSched.queue[1]].priority = L1Max
====
